---- MODULE Spec2Model ----
(***************************************************************************)
(* Piano-roll viewport and note-gesture engine of chronicle-ui.            *)
(*                                                                         *)
(* Numbers.  The code computes in IEEE doubles.  The model keeps every     *)
(* beat as an integer number of ticks (TicksPerBeat ticks to the beat) and *)
(* every pitch as an integer number of pitch ticks (TicksPerNote to the    *)
(* semitone); ratios and zoom factors are pairs <<numerator, denominator>>.*)
(* Products and quotients are computed on the numerators, so a result is   *)
(* the exact rational the code's formula denotes; an operation is taken    *)
(* only on inputs whose result lies on the tick grid (Representable).      *)
(***************************************************************************)
EXTENDS Integers, Sequences, FiniteSets, TLC

\* ---------------------------------------------------------------- numbers

\* <<ticks per beat, pitch ticks per semitone>>
Resolution == <<8, 2>>
TicksPerBeat == Resolution[1]
TicksPerNote == Resolution[2]

Max(a, b) == IF a >= b THEN a ELSE b
Min(a, b) == IF a <= b THEN a ELSE b

\* n/d lies on the integer grid
Representable(n, d) == n % d = 0

\* clamp(value, min, max) = Math.max(min, Math.min(max, value))
clamp(value, min, max) == Max(min, Min(max, value))

\* ------------------------------------------------- viewport configuration

initialBeats == 8
initialLowNote == 36
initialHighNote == 84
minBeatsVisible == 1
maxBeatsVisible == 64
minNotesVisible == 12
maxNotesVisible == 88
MidiMax == 127

\* the same, in ticks
MinBeatTicks == minBeatsVisible * TicksPerBeat
MaxBeatTicks == maxBeatsVisible * TicksPerBeat
MinNoteTicks == minNotesVisible * TicksPerNote
MaxNoteTicks == maxNotesVisible * TicksPerNote
MidiMaxTicks == MidiMax * TicksPerNote

\* ------------------------------------------------------- bounds of inputs

\* clip lengths the host may configure: 16, 4, ... beats
MaxClipIdx == 1
ClipLengths == {Max(1, 16 - 12 * i) * TicksPerBeat : i \in 0..MaxClipIdx}

\* anchor beats: -2, 0, 2, ... beats
MaxAnchorIdx == 3
AnchorBeats == {2 * i * TicksPerBeat : i \in -1..MaxAnchorIdx}

\* anchor pitches: 12, 60, 108, ...
MaxAnchorPitchIdx == 2
AnchorPitches == {(48 * i + 12) * TicksPerNote : i \in 0..MaxAnchorPitchIdx}

\* pan steps: multiples of 3 beats and of 20 semitones
MaxPanIdx == 1
PanBeats == {3 * TicksPerBeat * i : i \in -MaxPanIdx..MaxPanIdx} \ {0}
PanNotes == {20 * TicksPerNote * i : i \in -MaxPanIdx..MaxPanIdx} \ {0}

\* cursor ratios (0..1 is inside the viewport) and zoom factors
Ratios == {<<0, 1>>, <<1, 4>>, <<1, 2>>, <<1, 1>>, <<3, 2>>}
Factors == {<<1, 2>>, <<1, 1>>, <<2, 1>>, <<100, 1>>}

\* the inputs of the specification that runs both axes together
JointAnchorBeats == {2 * TicksPerBeat}
JointAnchorPitches == {60 * TicksPerNote}
JointPanBeats == {-6 * TicksPerBeat, 6 * TicksPerBeat}
JointPanNotes == {-40 * TicksPerNote, 40 * TicksPerNote}
JointRatios == {<<0, 1>>, <<1, 1>>, <<3, 2>>}
JointFactors == {<<1, 8>>, <<8, 1>>, <<100, 1>>, <<-1, 1>>}

NoArg == <<0, 1>>
\* an optional argument: <<>> when omitted, <<a>> when given
Center == <<>>
Given(S) == {<<a>> : a \in S}

\* ------------------------------------------------------------------ state

VARIABLES
    startBeat, endBeat, lowNote, highNote,  \* ViewportState, in ticks
    clipLength,                              \* options.clipLength, in ticks
    last,                                    \* the last viewport call (or keys press) and its arguments
    impl,            \* the gesture engine in use: "inline", "hook" or "d3"
    notes,           \* clip.notes, a sequence of MidiNote records
    selection,       \* the selected note ids
    dragState,       \* the DragState of the engine
    brushRect,       \* the brush rectangle in pixels, or NoRect
    brushListener,   \* the document-level brush listeners' closure, or NoListener
    brushPreviewIds, \* useD3Brush's preview state
    pressed,         \* the pointer button is down
    nextId,          \* the ids createNoteId has handed out
    gestures,        \* pointer-downs and double-clicks so far
    ptr,             \* the last pointer event of the gesture in progress
    clamped,         \* some frame of the gesture in progress clamped a note
    notes0,          \* clip.notes when the gesture in progress began
    selection0,      \* the selection when the gesture in progress began
    shift0,          \* the shift key was held when its button went down
    clipEmitted      \* the last event called onClipChange

VARIABLES
    loopStart,       \* TimelineRuler's loopStart prop, in ticks
    loopEnd,         \* its loopEnd prop, in ticks, or None
    rulerProps,      \* which of its callbacks the host supplies
    draggingHandle,  \* the handle being dragged and what its listener captured
    rulerEvent       \* the last pointer event on the ruler and what it emitted

VARIABLES
    mounted,         \* the component is mounted
    isPlaying,       \* its isPlaying option
    playheadBeat,    \* playheadBeatRef.current, in ticks
    marker,          \* the beat the playhead line is drawn at, and its visibility
    rafRef,          \* rafRef.current: a frame handle or None
    pending,         \* the frame callbacks the browser holds
    frames           \* the frame handles handed out so far

VARIABLES
    pixelsPerBeat,   \* the argument of calculateGridStep, a fraction
    gridStep,        \* its result in ticks, or None
    columns,         \* the beats of the grid lines drawn, in ticks, or None
    row,             \* the last y handed to yToPitch and its result, or None
    keysDragAnchor   \* keysDragAnchorRef.current: the anchor pitch in ticks, or None

vpVars == <<startBeat, endBeat, lowNote, highNote>>
rVars == <<loopStart, loopEnd, rulerProps, draggingHandle, rulerEvent>>
pVars == <<mounted, isPlaying, playheadBeat, marker, rafRef, pending, frames>>
sVars == <<pixelsPerBeat, gridStep, columns, row, keysDragAnchor>>
\* the ruler, the playhead and the grid step
xVars == <<rVars, pVars, sVars>>
eVars == <<impl, notes, selection, dragState, brushRect, brushListener,
           brushPreviewIds, pressed, nextId, gestures, ptr, clamped, notes0,
           selection0, shift0, clipEmitted>>
gVars == <<eVars, xVars>>
vars == <<startBeat, endBeat, lowNote, highNote, clipLength, last,
          impl, notes, selection, dragState, brushRect, brushListener,
          brushPreviewIds, pressed, nextId, gestures, ptr, clamped, notes0,
          selection0, shift0, clipEmitted,
          loopStart, loopEnd, rulerProps, draggingHandle, rulerEvent,
          mounted, isPlaying, playheadBeat, marker, rafRef, pending, frames,
          pixelsPerBeat, gridStep, columns, row, keysDragAnchor>>

Call(op, anchor, ratio, factor, delta) ==
    [op |-> op, anchor |-> anchor, ratio |-> ratio, factor |-> factor, delta |-> delta]

\* useState initialiser of usePianoRollViewport
InitViewport ==
    /\ startBeat = 0
    /\ endBeat = initialBeats * TicksPerBeat
    /\ lowNote = initialLowNote * TicksPerNote
    /\ highNote = initialHighNote * TicksPerNote

\* ----------------------------------------------------- the note editor's state

\* DEFAULT_SNAP_TO_BEAT = 0.25 and DEFAULT_VELOCITY = 0.8, as fractions
DEFAULT_SNAP_TO_BEAT == <<1, 4>>
DEFAULT_VELOCITY == <<8, 10>>
\* the snapToBeat option, in ticks
snapToBeat == (DEFAULT_SNAP_TO_BEAT[1] * TicksPerBeat) \div DEFAULT_SNAP_TO_BEAT[2]

\* pixels from a note's edge within which a press resizes
edgeThreshold == 8
EDGE_THRESHOLD == 6

\* the measured <<gridWidth, gridHeight>> in pixels
GridSize == <<320, 490>>
gridWidth == GridSize[1]
gridHeight == GridSize[2]

\* a MidiNote: pitch in pitch ticks, startBeat and duration in ticks
MidiNote(id, pitch, start, duration, velocity) ==
    [id |-> id, pitch |-> pitch, startBeat |-> start, duration |-> duration,
     velocity |-> velocity]

\* an absent optional value (undefined, null, an empty Map)
None == <<>>
Some(v) == <<v>>

INITIAL_DRAG_STATE ==
    [type |-> "none", noteId |-> 0, startBeat |-> 0, startPitch |-> 0,
     startX |-> 0, startY |-> 0, originalNote |-> None,
     originalSelectedNotes |-> None, originalSelectedNotesForResize |-> None]

\* a pointer event, and the pointer at rest between gestures
Pointer(kind, x, y, shiftKey) == [kind |-> kind, x |-> x, y |-> y, shiftKey |-> shiftKey]
Rest == Pointer("none", 0, 0, FALSE)

\* the clip the host hands to the editor: a one-beat note at beat 0 on pitch
\* 60, two grid-unit notes near the ends of the MIDI range, and a grid-unit
\* note at beat 2 on pitch 64
HostNotes ==
    << MidiNote(1, 60 * TicksPerNote, 0, TicksPerBeat, DEFAULT_VELOCITY),
       MidiNote(2, 126 * TicksPerNote, 2 * TicksPerBeat, snapToBeat, DEFAULT_VELOCITY),
       MidiNote(3, 2 * TicksPerNote, 4 * TicksPerBeat, snapToBeat, DEFAULT_VELOCITY),
       MidiNote(4, 64 * TicksPerNote, 2 * TicksPerBeat, snapToBeat, DEFAULT_VELOCITY) >>

\* no callback supplied, nothing dragged, nothing emitted
NoCallbacks ==
    [onLoopStartChange |-> FALSE, onLoopEndChange |-> FALSE, onClipLengthChange |-> FALSE]
NoHandle == [handle |-> "none", startMouseX |-> 0, loopStart |-> 0, loopEnd |-> 0]
RulerEvent(kind, start, end, error) ==
    [kind |-> kind, start |-> start, end |-> end, error |-> error]

\* a ruler without callbacks
RulerIdle ==
    /\ loopStart = 0
    /\ loopEnd = None
    /\ rulerProps = NoCallbacks
    /\ draggingHandle = NoHandle
    /\ rulerEvent = RulerEvent("none", None, None, FALSE)

\* the playhead hook mounted and stopped at beat 0
PlayheadIdle ==
    /\ mounted = TRUE
    /\ isPlaying = FALSE
    /\ playheadBeat = 0
    /\ marker = [beat |-> 0, visible |-> TRUE]
    /\ rafRef = None
    /\ pending = {}
    /\ frames = 0

\* the grid not drawn yet
GridStepIdle ==
    /\ pixelsPerBeat = <<40, 1>>
    /\ gridStep = None
    /\ columns = None
    /\ row = None
    /\ keysDragAnchor = None

\* the editor before any pointer event, over the given notes and selection
EditorOnly(engine, clipNotes, selected) ==
    /\ impl = engine
    /\ notes = clipNotes
    /\ selection = selected
    /\ dragState = INITIAL_DRAG_STATE
    /\ brushRect = None
    /\ brushListener = None
    /\ brushPreviewIds = {}
    /\ pressed = FALSE
    /\ nextId = Len(clipNotes)
    /\ gestures = 0
    /\ ptr = Rest
    /\ clamped = FALSE
    /\ notes0 = clipNotes
    /\ selection0 = selected
    /\ shift0 = FALSE
    /\ clipEmitted = FALSE

\* the same with the ruler, the playhead and the grid step at rest
EditorIdle(engine, clipNotes, selected) ==
    /\ EditorOnly(engine, clipNotes, selected)
    /\ RulerIdle
    /\ PlayheadIdle
    /\ GridStepIdle

Init ==
    /\ InitViewport
    /\ clipLength \in ClipLengths
    /\ last = Call("init", Center, NoArg, NoArg, 0)
    /\ EditorIdle("d3", << >>, {})

\* ------------------------------------------------------- viewport reducers

\* the upper zoom limit left out
ScaledRangeNoMax(range, factor, min, max) ==
    Max(min * factor[2], range * factor[1])

\* clamp(range * factor, min, max), on numerators over the factor's denominator
ScaledRange(range, factor, min, max) ==
    clamp(range * factor[1], min * factor[2], max * factor[2])

\* the clamp against the clip length left out
PanTimeStartNoClipClamp(start, range, deltaBeats, clip) ==
    Max(0, start + deltaBeats)

\* panTime: the clamped new startBeat
PanTimeStart(start, range, deltaBeats, clip) ==
    LET s0 == start + deltaBeats
        s1 == IF s0 < 0 THEN 0 ELSE s0
        maxStart == Max(0, clip - range)
    IN  IF s1 > maxStart THEN maxStart ELSE s1

panTime(deltaBeats) ==
    LET range == endBeat - startBeat
        newStart == PanTimeStart(startBeat, range, deltaBeats, clipLength)
    IN  /\ startBeat' = newStart
        /\ endBeat' = newStart + range
        /\ UNCHANGED <<lowNote, highNote, clipLength>>
        /\ UNCHANGED gVars
        /\ last' = Call("panTime", Center, NoArg, NoArg, deltaBeats)

\* the clamp at the top of the MIDI range left out
PanPitchLowNoTopClamp(low, range, deltaNotes) ==
    Max(0, low + deltaNotes)

\* panPitch: the clamped new lowNote
PanPitchLow(low, range, deltaNotes) ==
    LET l0 == low + deltaNotes
        l1 == IF l0 < 0 THEN 0 ELSE l0
    IN  IF l1 + range > MidiMaxTicks THEN MidiMaxTicks - range ELSE l1

panPitch(deltaNotes) ==
    LET range == highNote - lowNote
        newLow == PanPitchLow(lowNote, range, deltaNotes)
    IN  /\ lowNote' = newLow
        /\ highNote' = newLow + range
        /\ UNCHANGED <<startBeat, endBeat, clipLength>>
        /\ UNCHANGED gVars
        /\ last' = Call("panPitch", Center, NoArg, NoArg, deltaNotes)

\* resetViewport
resetViewport ==
    /\ startBeat' = 0
    /\ endBeat' = initialBeats * TicksPerBeat
    /\ lowNote' = initialLowNote * TicksPerNote
    /\ highNote' = initialHighNote * TicksPerNote
    /\ UNCHANGED clipLength
    /\ UNCHANGED gVars
    /\ last' = Call("resetViewport", Center, NoArg, NoArg, 0)

\* the anchor of a zoom: the given one, or the centre of the viewport
\* (anchor ?? start + range / 2), as a numerator over ZoomAnchorDen
ZoomAnchorNum(low, range, anchor) ==
    IF anchor = Center THEN 2 * low + range ELSE anchor[1]

ZoomAnchorDen(anchor) == IF anchor = Center THEN 2 ELSE 1

\* anchor - newRange * anchorRatio with anchorRatio = (anchor - low) / range,
\* as a numerator over ZoomDen
ZoomLowNum(low, range, newRange, anchor) ==
    LET an == ZoomAnchorNum(low, range, anchor)
        ad == ZoomAnchorDen(anchor)
    IN  an * range - newRange * (an - low * ad)

ZoomDen(range, anchor) == ZoomAnchorDen(anchor) * range

\* zoomTime: the two clamps of newStart, on numerators over den
ZoomTimeClamp(num, den, newRange, clip) ==
    LET s1 == IF num < 0 THEN 0 ELSE num
        maxStart == Max(0, clip - newRange)
    IN  IF s1 > maxStart * den THEN maxStart * den ELSE s1

zoomTime(factor, anchorBeat) ==
    LET range == endBeat - startBeat
        scaled == ScaledRange(range, factor, MinBeatTicks, MaxBeatTicks)
        newRange == scaled \div factor[2]
        den == ZoomDen(range, anchorBeat)
        num == ZoomTimeClamp(ZoomLowNum(startBeat, range, newRange, anchorBeat),
                             den, newRange, clipLength)
    IN  /\ Representable(scaled, factor[2])
        /\ IF newRange = range
           THEN UNCHANGED <<startBeat, endBeat>>
           ELSE /\ Representable(num, den)
                /\ startBeat' = num \div den
                /\ endBeat' = (num \div den) + newRange
        /\ UNCHANGED <<lowNote, highNote, clipLength>>
        /\ UNCHANGED gVars
        /\ last' = Call("zoomTime", anchorBeat, NoArg, factor, 0)

\* zoomPitch: the two clamps of newLow, on numerators over den
ZoomPitchClamp(num, den, newRange) ==
    LET l1 == IF num < 0 THEN 0 ELSE num
    IN  IF l1 + newRange * den > MidiMaxTicks * den
        THEN (MidiMaxTicks - newRange) * den
        ELSE l1

zoomPitch(factor, anchorPitch) ==
    LET range == highNote - lowNote
        scaled == ScaledRange(range, factor, MinNoteTicks, MaxNoteTicks)
        newRange == scaled \div factor[2]
        den == ZoomDen(range, anchorPitch)
        num == ZoomPitchClamp(ZoomLowNum(lowNote, range, newRange, anchorPitch),
                              den, newRange)
    IN  /\ Representable(scaled, factor[2])
        /\ IF newRange = range
           THEN UNCHANGED <<lowNote, highNote>>
           ELSE /\ Representable(num, den)
                /\ lowNote' = num \div den
                /\ highNote' = (num \div den) + newRange
        /\ UNCHANGED <<startBeat, endBeat, clipLength>>
        /\ UNCHANGED gVars
        /\ last' = Call("zoomPitch", anchorPitch, NoArg, factor, 0)

\* the anchor offset added instead of subtracted
PanZoomTimeStartWrongSign(anchorBeat, anchorRatio, newRange) ==
    Max(0, anchorBeat * anchorRatio[2] + anchorRatio[1] * newRange)

\* panZoomTime: Math.max(0, anchorBeat - anchorRatio * newRange), as a
\* numerator over the ratio's denominator
PanZoomTimeStart(anchorBeat, anchorRatio, newRange) ==
    Max(0, anchorBeat * anchorRatio[2] - anchorRatio[1] * newRange)

panZoomTime(anchorBeat, anchorRatio, zoomFactor) ==
    LET range == endBeat - startBeat
        scaled == ScaledRange(range, zoomFactor, MinBeatTicks, MaxBeatTicks)
        newRange == scaled \div zoomFactor[2]
        num == PanZoomTimeStart(anchorBeat, anchorRatio, newRange)
    IN  /\ Representable(scaled, zoomFactor[2])
        /\ Representable(num, anchorRatio[2])
        /\ startBeat' = num \div anchorRatio[2]
        /\ endBeat' = (num \div anchorRatio[2]) + newRange
        /\ UNCHANGED <<lowNote, highNote, clipLength>>
        /\ UNCHANGED gVars
        /\ last' = Call("panZoomTime", <<anchorBeat>>, anchorRatio, zoomFactor, 0)

\* the time-axis formula used on the inverted pitch axis
PanZoomPitchBoundsNotInverted(anchorPitch, anchorRatio, newRange) ==
    LET den == anchorRatio[2]
        low0 == anchorPitch * den - anchorRatio[1] * newRange
        high0 == low0 + newRange * den
        low1 == IF low0 < 0 THEN 0 ELSE low0
        high1 == IF low0 < 0 THEN newRange * den ELSE high0
    IN  IF high1 > MidiMaxTicks * den
        THEN <<(MidiMaxTicks - newRange) * den, MidiMaxTicks * den>>
        ELSE <<low1, high1>>

\* panZoomPitch: <<newLow, newHigh>> after the two clamps, as numerators over
\* the ratio's denominator
PanZoomPitchBounds(anchorPitch, anchorRatio, newRange) ==
    LET den == anchorRatio[2]
        high0 == anchorPitch * den + anchorRatio[1] * newRange
        low0 == high0 - newRange * den
        low1 == IF low0 < 0 THEN 0 ELSE low0
        high1 == IF low0 < 0 THEN newRange * den ELSE high0
    IN  IF high1 > MidiMaxTicks * den
        THEN <<(MidiMaxTicks - newRange) * den, MidiMaxTicks * den>>
        ELSE <<low1, high1>>

panZoomPitch(anchorPitch, anchorRatio, zoomFactor) ==
    LET range == highNote - lowNote
        scaled == ScaledRange(range, zoomFactor, MinNoteTicks, MaxNoteTicks)
        newRange == scaled \div zoomFactor[2]
        b == PanZoomPitchBounds(anchorPitch, anchorRatio, newRange)
    IN  /\ Representable(scaled, zoomFactor[2])
        /\ Representable(b[1], anchorRatio[2])
        /\ Representable(b[2], anchorRatio[2])
        /\ lowNote' = b[1] \div anchorRatio[2]
        /\ highNote' = b[2] \div anchorRatio[2]
        /\ UNCHANGED <<startBeat, endBeat, clipLength>>
        /\ UNCHANGED gVars
        /\ last' = Call("panZoomPitch", <<anchorPitch>>, anchorRatio, zoomFactor, 0)

\* the time-axis calls, with inputs from the given sets
TimeStep(pans, anchors, ratios, factors) ==
    \/ \E d \in pans : panTime(d)
    \/ \E f \in factors, a \in Given(anchors) \cup {Center} : zoomTime(f, a)
    \/ \E a \in anchors, r \in ratios, f \in factors : panZoomTime(a, r, f)

\* the pitch-axis calls, with inputs from the given sets
PitchStep(pans, anchors, ratios, factors) ==
    \/ \E d \in pans : panPitch(d)
    \/ \E f \in factors, a \in Given(anchors) \cup {Center} : zoomPitch(f, a)
    \/ \E a \in anchors, r \in ratios, f \in factors : panZoomPitch(a, r, f)

NextTime ==
    \/ TimeStep(PanBeats, AnchorBeats, Ratios, Factors)
    \/ resetViewport

NextPitch ==
    \/ PitchStep(PanNotes, AnchorPitches, Ratios, Factors)
    \/ resetViewport

NextViewport ==
    \/ TimeStep(JointPanBeats, JointAnchorBeats, JointRatios, JointFactors)
    \/ PitchStep(JointPanNotes, JointAnchorPitches, JointRatios, JointFactors)
    \/ resetViewport

\* every viewport call, both axes
Spec == Init /\ [][NextViewport]_vars
\* the time axis alone, over the larger input sets
SpecTime == Init /\ [][NextTime]_vars
\* the pitch axis alone, over the larger input sets
SpecPitch == Init /\ [][NextPitch]_vars

\* ---------------------------------------------------- coordinate conversion

\* Math.floor(n / d) and Math.round(n / d) = floor(n / d + 1/2), for d > 0
Floor(n, d) == n \div d
Round(n, d) == (2 * n + d) \div (2 * d)

\* the value is cut down to the grid line below it
snapDown(n, d, grid) == Floor(n, d * grid) * grid

\* snap(value, grid) = Math.round(value / grid) * grid, the value being n / d
snap(n, d, grid) == Round(n, d * grid) * grid

beatsVisible == endBeat - startBeat
\* highNote - lowNote + 1, in pitch ticks
noteRange == highNote - lowNote + TicksPerNote

\* the beat of the pixel without the snap
pixelToBeatNoSnap(x) == Floor(startBeat * gridWidth + x * beatsVisible, gridWidth)

\* pixelToBeat / xToBeat: snap(startBeat + (x / gridWidth) * beatsVisible)
pixelToBeat(x) == snap(startBeat * gridWidth + x * beatsVisible, gridWidth, snapToBeat)

\* pixelToPitch: highNote - Math.floor(y / noteHeight), noteHeight being
\* gridHeight / noteRange
pixelToPitch(y) ==
    highNote - Floor(y * noteRange, gridHeight * TicksPerNote) * TicksPerNote

\* yToPitch: clamp(Math.floor(yScale.invert(y)), 0, 127), the scale mapping
\* [highNote + 1, lowNote] onto [0, gridHeight]
yToPitch(y) ==
    clamp(Floor((highNote + TicksPerNote) * gridHeight - y * noteRange,
                gridHeight * TicksPerNote), 0, MidiMax) * TicksPerNote

\* Pixel positions are kept as numerators: beatToX(beat) is XNum(beat) over
\* beatsVisible, pitchToY(pitch) is YNum(pitch) over noteRange, and noteHeight
\* is NoteHeightNum over noteRange.
XNum(beat) == (beat - startBeat) * gridWidth
YNum(pitch) == (highNote - pitch) * gridHeight
NoteHeightNum == gridHeight * TicksPerNote

InGrid(x, y) == x >= 0 /\ x < gridWidth /\ y >= 0 /\ y < gridHeight

\* the predicate of clip.notes.find in the mouse handlers
UnderPointer(note, x, y) ==
    /\ x * beatsVisible >= XNum(note.startBeat)
    /\ x * beatsVisible <= XNum(note.startBeat + note.duration)
    /\ y * noteRange >= YNum(note.pitch)
    /\ y * noteRange < YNum(note.pitch) + NoteHeightNum

\* clip.notes.find: the index of the first note under the pointer, 0 if none
clickedNote(x, y) ==
    LET hits == {i \in 1..Len(notes) : UnderPointer(notes[i], x, y)}
    IN  IF hits = {} THEN 0 ELSE CHOOSE i \in hits : \A j \in hits : i <= j

\* x - noteStartX < edgeThreshold and noteEndX - x < edgeThreshold
NearStart(note, x) == (x - edgeThreshold) * beatsVisible < XNum(note.startBeat)
NearEnd(note, x) == XNum(note.startBeat + note.duration) < (x + edgeThreshold) * beatsVisible

\* boxes that only touch do not intersect
noteIntersectsRectOpen(note, rect) ==
    LET rectX1 == Min(rect.x1, rect.x2)
        rectX2 == Max(rect.x1, rect.x2)
        rectY1 == Min(rect.y1, rect.y2)
        rectY2 == Max(rect.y1, rect.y2)
    IN  ~ \/ XNum(note.startBeat + note.duration) <= rectX1 * beatsVisible
          \/ XNum(note.startBeat) >= rectX2 * beatsVisible
          \/ YNum(note.pitch) + NoteHeightNum <= rectY1 * noteRange
          \/ YNum(note.pitch) >= rectY2 * noteRange

\* noteIntersectsRect / getNotesInRect's filter
noteIntersectsRect(note, rect) ==
    LET noteX1 == XNum(note.startBeat)
        noteX2 == XNum(note.startBeat + note.duration)
        noteY1 == YNum(note.pitch)
        noteY2 == noteY1 + NoteHeightNum
        rectX1 == Min(rect.x1, rect.x2)
        rectX2 == Max(rect.x1, rect.x2)
        rectY1 == Min(rect.y1, rect.y2)
        rectY2 == Max(rect.y1, rect.y2)
    IN  ~ \/ noteX2 < rectX1 * beatsVisible
          \/ noteX1 > rectX2 * beatsVisible
          \/ noteY2 < rectY1 * noteRange
          \/ noteY1 > rectY2 * noteRange

NotesInRect(clipNotes, rect) ==
    {clipNotes[i].id : i \in {j \in 1..Len(clipNotes) : noteIntersectsRect(clipNotes[j], rect)}}

\* the viewport a render's beatToX, pitchToY and noteHeight are made of
Scales == [startBeat |-> startBeat, endBeat |-> endBeat,
           lowNote |-> lowNote, highNote |-> highNote]

\* noteIntersectsRect with the beatToX, pitchToY and noteHeight of the render
\* a handler closed over
noteIntersectsRectAt(scales, note, rect) ==
    LET beats == scales.endBeat - scales.startBeat
        range == scales.highNote - scales.lowNote + TicksPerNote
        noteX1 == (note.startBeat - scales.startBeat) * gridWidth
        noteX2 == (note.startBeat + note.duration - scales.startBeat) * gridWidth
        noteY1 == (scales.highNote - note.pitch) * gridHeight
        noteY2 == noteY1 + gridHeight * TicksPerNote
        rectX1 == Min(rect.x1, rect.x2)
        rectX2 == Max(rect.x1, rect.x2)
        rectY1 == Min(rect.y1, rect.y2)
        rectY2 == Max(rect.y1, rect.y2)
    IN  ~ \/ noteX2 < rectX1 * beats
          \/ noteX1 > rectX2 * beats
          \/ noteY2 < rectY1 * range
          \/ noteY1 > rectY2 * range

NotesInRectAt(scales, clipNotes, rect) ==
    {clipNotes[i].id :
        i \in {j \in 1..Len(clipNotes) : noteIntersectsRectAt(scales, clipNotes[j], rect)}}

\* the notes useD3Notes renders
Visible(note) ==
    /\ note.startBeat + note.duration >= startBeat
    /\ note.startBeat <= endBeat
    /\ note.pitch > lowNote - TicksPerNote
    /\ note.pitch < highNote + TicksPerNote

\* the rendered width of a note, over beatsVisible:
\* Math.max(8, noteEndX - x - 1)
WidthNum(note) ==
    Max(8 * beatsVisible, XNum(note.startBeat + note.duration) - XNum(note.startBeat) - beatsVisible)

\* the pointer is on the rendered group of the note: its body is WidthNum wide
\* and noteHeight - 1 high, at (beatToX(startBeat), pitchToY(pitch))
OnNote(note, x, y) ==
    /\ Visible(note)
    /\ x * beatsVisible >= XNum(note.startBeat)
    /\ x * beatsVisible < XNum(note.startBeat) + WidthNum(note)
    /\ y * noteRange >= YNum(note.pitch)
    /\ y * noteRange < YNum(note.pitch) + NoteHeightNum - noteRange

\* localX < EDGE_THRESHOLD and localX > groupRect.width - EDGE_THRESHOLD
OnStartEdge(note, x) == (x - EDGE_THRESHOLD) * beatsVisible < XNum(note.startBeat)
OnEndEdge(note, x) ==
    (x + EDGE_THRESHOLD) * beatsVisible - XNum(note.startBeat) > WidthNum(note)

\* ------------------------------------------------------------- drag frames

\* the position is taken from the note as it is now, not from the snapshot
MoveNoteFromCurrent(n, original, deltaBeat, deltaPitch) ==
    [n EXCEPT !.startBeat = Max(0, n.startBeat + deltaBeat),
              !.pitch = Max(0, Min(MidiMaxTicks, n.pitch + deltaPitch))]

\* the pitch is not held inside the MIDI range
MoveNoteNoPitchClamp(n, original, deltaBeat, deltaPitch) ==
    [n EXCEPT !.startBeat = Max(0, original.startBeat + deltaBeat),
              !.pitch = original.pitch + deltaPitch]

\* one note of a move frame
MoveNote(n, original, deltaBeat, deltaPitch) ==
    [n EXCEPT !.startBeat = Max(0, original.startBeat + deltaBeat),
              !.pitch = Max(0, Min(MidiMaxTicks, original.pitch + deltaPitch))]

\* the frame is applied whatever duration it leaves
ResizeStartNoteNoGuard(n, original, deltaBeat, strict) ==
    LET newStart == Max(0, original.startBeat + deltaBeat)
    IN  [n EXCEPT !.startBeat = newStart,
                  !.duration = original.startBeat + original.duration - newStart]

\* one note of a resize-start frame; strict is the comparison newDuration >
\* snapToBeat of the inline handler, against >= in the other two engines
ResizeStartNote(n, original, deltaBeat, strict) ==
    LET newStart == Max(0, original.startBeat + deltaBeat)
        noteEnd == original.startBeat + original.duration
        newDuration == noteEnd - newStart
    IN  IF (strict /\ newDuration > snapToBeat) \/ (~strict /\ newDuration >= snapToBeat)
        THEN [n EXCEPT !.startBeat = newStart, !.duration = newDuration]
        ELSE n

\* the floor of one grid unit left out
ResizeEndNoteNoFloor(n, original, deltaBeat) ==
    [n EXCEPT !.duration = original.duration + deltaBeat]

\* one note of a resize-end frame
ResizeEndNote(n, original, deltaBeat) ==
    [n EXCEPT !.duration = Max(snapToBeat, original.duration + deltaBeat)]

\* ------------------------------------------------------- gesture snapshots

IdsOf(clipNotes) == {clipNotes[i].id : i \in 1..Len(clipNotes)}
NoteById(id) == notes[CHOOSE i \in 1..Len(notes) : notes[i].id = id]

\* Map<id, {startBeat, pitch}> of the given ids that are in the clip
originalPositions(ids) ==
    LET present == ids \cap IdsOf(notes)
    IN  IF present = {} THEN None
        ELSE [id \in present |->
                [startBeat |-> NoteById(id).startBeat, pitch |-> NoteById(id).pitch]]

\* Map<id, {startBeat, duration}>: every selected note when the pressed note
\* is selected, the pressed note alone otherwise
originalNotes(note, selected) ==
    LET notesToResize == IF note.id \in selected THEN selected \cap IdsOf(notes)
                         ELSE {note.id}
    IN  [id \in notesToResize |->
            [startBeat |-> NoteById(id).startBeat, duration |-> NoteById(id).duration]]

\* a shift-press adds the note and never takes it out
activeSelectionNoToggle(note, shiftKey) ==
    IF ~shiftKey /\ note.id \notin selection THEN {note.id}
    ELSE IF shiftKey THEN selection \cup {note.id}
         ELSE selection

\* the selection a press on a note body leaves
activeSelection(note, shiftKey) ==
    IF ~shiftKey /\ note.id \notin selection THEN {note.id}
    ELSE IF shiftKey
         THEN IF note.id \in selection THEN selection \ {note.id}
              ELSE selection \cup {note.id}
         ELSE selection

\* the frame maps the clip the gesture started with, not the current one
FrameNotesOfStart(deltaBeat, deltaPitch) ==
    LET moved == dragState.originalSelectedNotes
        resized == dragState.originalSelectedNotesForResize
    IN  CASE dragState.type = "move" ->
                [i \in 1..Len(notes0) |->
                    IF notes0[i].id \in DOMAIN moved
                    THEN MoveNote(notes0[i], moved[notes0[i].id], deltaBeat, deltaPitch)
                    ELSE notes0[i]]
          [] dragState.type = "resize-start" ->
                [i \in 1..Len(notes0) |->
                    IF notes0[i].id \in DOMAIN resized
                    THEN ResizeStartNote(notes0[i], resized[notes0[i].id], deltaBeat, FALSE)
                    ELSE notes0[i]]
          [] dragState.type = "resize-end" ->
                [i \in 1..Len(notes0) |->
                    IF notes0[i].id \in DOMAIN resized
                    THEN ResizeEndNote(notes0[i], resized[notes0[i].id], deltaBeat)
                    ELSE notes0[i]]
          [] OTHER -> notes

\* clip.notes.map of a drag frame of usePianoRollDrag and useD3NoteDrag
FrameNotes(deltaBeat, deltaPitch) ==
    LET moved == dragState.originalSelectedNotes
        resized == dragState.originalSelectedNotesForResize
    IN  CASE dragState.type = "move" ->
                [i \in 1..Len(notes) |->
                    IF notes[i].id \in DOMAIN moved
                    THEN MoveNote(notes[i], moved[notes[i].id], deltaBeat, deltaPitch)
                    ELSE notes[i]]
          [] dragState.type = "resize-start" ->
                [i \in 1..Len(notes) |->
                    IF notes[i].id \in DOMAIN resized
                    THEN ResizeStartNote(notes[i], resized[notes[i].id], deltaBeat, FALSE)
                    ELSE notes[i]]
          [] dragState.type = "resize-end" ->
                [i \in 1..Len(notes) |->
                    IF notes[i].id \in DOMAIN resized
                    THEN ResizeEndNote(notes[i], resized[notes[i].id], deltaBeat)
                    ELSE notes[i]]
          [] OTHER -> notes

\* the same of the handler inside PianoRoll: a resize edits the pressed note
\* only, from originalNote
InlineFrameNotes(deltaBeat, deltaPitch) ==
    LET moved == dragState.originalSelectedNotes
    IN  CASE dragState.type = "move" ->
                [i \in 1..Len(notes) |->
                    IF notes[i].id \in DOMAIN moved
                    THEN MoveNote(notes[i], moved[notes[i].id], deltaBeat, deltaPitch)
                    ELSE notes[i]]
          [] dragState.type = "resize-start" /\ dragState.originalNote # None ->
                [i \in 1..Len(notes) |->
                    IF notes[i].id = dragState.noteId
                    THEN ResizeStartNote(notes[i], dragState.originalNote[1], deltaBeat, TRUE)
                    ELSE notes[i]]
          [] dragState.type = "resize-end" /\ dragState.originalNote # None ->
                [i \in 1..Len(notes) |->
                    IF notes[i].id = dragState.noteId
                    THEN ResizeEndNote(notes[i], dragState.originalNote[1], deltaBeat)
                    ELSE notes[i]]
          [] OTHER -> notes

\* the frame of handleGridMouseMove reaches onClipChange: a move with an
\* empty snapshot breaks out, and so does a resize-start of the inline
\* handler that leaves no more than one grid unit
FrameEmits(deltaBeat) ==
    CASE dragState.type = "move" -> dragState.originalSelectedNotes # None
      [] dragState.type = "resize-start" /\ impl = "inline" ->
            /\ dragState.originalNote # None
            /\ LET original == dragState.originalNote[1]
                   newStart == Max(0, original.startBeat + deltaBeat)
               IN  original.startBeat + original.duration - newStart > snapToBeat
      [] dragState.type = "resize-end" /\ impl = "inline" -> dragState.originalNote # None
      [] dragState.type \in {"resize-start", "resize-end"} /\ impl # "inline" -> TRUE
      [] OTHER -> FALSE

\* a move frame with these deltas clamps some note of the snapshot
Clamps(deltaBeat, deltaPitch) ==
    /\ dragState.type = "move"
    /\ \E id \in DOMAIN dragState.originalSelectedNotes :
          LET original == dragState.originalSelectedNotes[id]
          IN  \/ original.startBeat + deltaBeat < 0
              \/ original.pitch + deltaPitch < 0
              \/ original.pitch + deltaPitch > MidiMaxTicks

\* ------------------------------------------------- bounds of the gestures

\* pointer-downs and double-clicks in one run
MaxGestures == 2

\* where the pointer goes, in pixels <<x, y>> from the grid's corner: on the
\* row of pitch 60 at beats 0.05, 0.5, 0.75, 0.95 and 2.5 and left of the
\* grid, and on the row of pitch 64 at beats 0.5 and 2.5
Pointers ==
    { <<2, 245>>, <<20, 245>>, <<30, 245>>, <<38, 245>>, <<100, 245>>, <<-10, 245>>,
      <<20, 205>>, <<100, 205>> }

\* ------------------------------------- pointer-down: hook and inline engines

\* handleGridMouseDown of usePianoRollDrag and of PianoRoll; the latter keeps
\* no snapshot for a resize
handleGridMouseDown(x, y, shiftKey) ==
    LET beat == pixelToBeat(x)
        pitch == pixelToPitch(y)
        hit == clickedNote(x, y)
        started(type) ==
            [INITIAL_DRAG_STATE EXCEPT !.type = type, !.startBeat = beat,
                !.startPitch = pitch, !.startX = x, !.startY = y]
        onNote(type, note) ==
            [started(type) EXCEPT !.noteId = note.id, !.originalNote = Some(note)]
        resizing(type, note) ==
            [onNote(type, note) EXCEPT !.originalSelectedNotesForResize =
                IF impl = "hook" THEN originalNotes(note, selection) ELSE None]
    IN  IF hit # 0
        THEN LET note == notes[hit]
             IN  /\ UNCHANGED <<brushRect, brushListener>>
                 /\ IF NearStart(note, x)
                    THEN /\ dragState' = resizing("resize-start", note)
                         /\ UNCHANGED selection
                    ELSE IF NearEnd(note, x)
                    THEN /\ dragState' = resizing("resize-end", note)
                         /\ UNCHANGED selection
                    ELSE /\ selection' = activeSelection(note, shiftKey)
                         /\ dragState' =
                              [onNote("move", note) EXCEPT !.originalSelectedNotes =
                                  originalPositions(activeSelection(note, shiftKey))]
        ELSE /\ selection' = {}
             /\ brushRect' = Some([x1 |-> x, y1 |-> y, x2 |-> x, y2 |-> y])
             /\ dragState' = started("brush")
             \* handleBrushMove and handleBrushUp close over x, y, clip,
             \* selection and scales of this render
             /\ brushListener' = Some([x |-> x, y |-> y, notes |-> notes,
                                       selection |-> selection, shiftKey |-> FALSE,
                                       scales |-> Scales])

\* ---------------------------------------------- pointer-down: the D3 engine

\* the 'start' handler of the d3.drag of useD3NoteDrag, on the group of note
dragStart(note, x, y, shiftKey) ==
    LET type == IF OnStartEdge(note, x) THEN "resize-start"
                ELSE IF OnEndEdge(note, x) THEN "resize-end"
                ELSE "move"
        \* selectionRef.current still holds the selection of the last render
        currentSelection ==
            IF type = "move" /\ note.id \notin selection /\ ~shiftKey
            THEN {note.id} ELSE selection
    IN  /\ selection' = IF type = "move" THEN activeSelection(note, shiftKey)
                        ELSE selection
        /\ dragState' =
             [INITIAL_DRAG_STATE EXCEPT !.type = type, !.noteId = note.id,
                !.startX = x, !.startY = y, !.originalNote = Some(note),
                !.originalSelectedNotes =
                    IF type = "move" THEN originalPositions(currentSelection) ELSE None,
                !.originalSelectedNotesForResize =
                    IF type = "move" THEN None ELSE originalNotes(note, currentSelection)]
        /\ UNCHANGED <<brushRect, brushListener>>

\* the 'start' handler of the d3.brush of useD3Brush: isBrushing and
\* shiftKeyHeld are the closure
brushStart(x, y, shiftKey) ==
    /\ brushRect' = Some([x1 |-> x, y1 |-> y, x2 |-> x, y2 |-> y])
    /\ brushListener' = Some([x |-> x, y |-> y, notes |-> << >>, selection |-> {},
                              shiftKey |-> shiftKey, scales |-> Scales])
    /\ selection' = IF shiftKey THEN selection ELSE {}
    /\ UNCHANGED dragState

\* a press on the svg: the drag of a note group under the pointer, the brush
\* otherwise
svgMouseDown(x, y, shiftKey) ==
    IF \E i \in 1..Len(notes) : OnNote(notes[i], x, y)
    THEN \E i \in 1..Len(notes) :
            /\ OnNote(notes[i], x, y)
            /\ dragStart(notes[i], x, y, shiftKey)
    ELSE brushStart(x, y, shiftKey)

\* no gesture is in progress: no handler acts on a pointer-move
Idle == ~pressed /\ dragState.type = "none" /\ brushListener = None

\* the pointer is at (x, y), or gets there with no handler acting on the way
At(x, y) == Idle \/ <<x, y>> = <<ptr.x, ptr.y>>

\* the button goes down at (x, y) on the grid
PointerDown(x, y, shiftKey) ==
    /\ ~pressed
    /\ gestures < MaxGestures
    /\ At(x, y)
    /\ InGrid(x, y)
    /\ IF impl = "d3" THEN svgMouseDown(x, y, shiftKey)
       ELSE handleGridMouseDown(x, y, shiftKey)
    /\ pressed' = TRUE
    /\ gestures' = gestures + 1
    /\ ptr' = Pointer("down", x, y, shiftKey)
    /\ clamped' = FALSE
    /\ notes0' = notes
    /\ selection0' = selection
    /\ shift0' = shiftKey
    /\ clipEmitted' = FALSE
    /\ UNCHANGED <<impl, notes, brushPreviewIds, nextId>>
    /\ UNCHANGED <<startBeat, endBeat, lowNote, highNote, clipLength, last>>
    /\ UNCHANGED xVars

\* ------------------------------------------------------------ pointer-move

\* handleGridMouseMove on the grid, the grid's onMouseLeave, and the
\* document's handleBrushMove while a brush is listening
gridMouseMove(x, y) ==
    LET deltaBeat == pixelToBeat(x) - dragState.startBeat
        deltaPitch == pixelToPitch(y) - dragState.startPitch
        editing == InGrid(x, y) /\ dragState.type \in {"move", "resize-start", "resize-end"}
        \* PianoRoll's onMouseLeave drops a move or a resize; PianoRollGrid's
        \* handleMouseLeave does nothing
        leaving == /\ impl = "inline"
                   /\ ~InGrid(x, y) /\ InGrid(ptr.x, ptr.y)
                   /\ dragState.type \notin {"none", "brush"}
        brushing == \/ InGrid(x, y) /\ dragState.type = "brush"
                    \/ brushListener # None
    IN  /\ notes' = IF ~editing THEN notes
                    ELSE IF impl = "inline" THEN InlineFrameNotes(deltaBeat, deltaPitch)
                    ELSE FrameNotes(deltaBeat, deltaPitch)
        /\ brushRect' = IF brushing /\ brushRect # None
                        THEN Some([brushRect[1] EXCEPT !.x2 = x, !.y2 = y])
                        ELSE brushRect
        /\ dragState' = IF leaving THEN INITIAL_DRAG_STATE ELSE dragState
        /\ clamped' = (clamped \/ (editing /\ Clamps(deltaBeat, deltaPitch)))
        /\ clipEmitted' = (editing /\ FrameEmits(deltaBeat))
        /\ UNCHANGED <<brushListener, brushPreviewIds>>

\* the 'drag' handler of useD3NoteDrag and the 'brush' handler of useD3Brush;
\* d3 delivers them wherever the pointer is while the button is down
svgMouseMove(x, y) ==
    LET deltaBeat == snap(pixelToBeat(x) - pixelToBeat(dragState.startX), 1, snapToBeat)
        deltaPitch == yToPitch(y) - yToPitch(dragState.startY)
        dragging == pressed /\ dragState.type # "none"
        brushing == pressed /\ brushListener # None
        \* the brush keeps its rectangle inside its extent
        moved == [brushRect[1] EXCEPT !.x2 = clamp(x, 0, gridWidth),
                                      !.y2 = clamp(y, 0, gridHeight)]
    IN  /\ notes' = IF dragging THEN FrameNotes(deltaBeat, deltaPitch) ELSE notes
        /\ brushRect' = IF brushing THEN Some(moved) ELSE brushRect
        /\ brushPreviewIds' = IF brushing THEN NotesInRect(notes, moved)
                              ELSE brushPreviewIds
        /\ clamped' = (clamped \/ (dragging /\ Clamps(deltaBeat, deltaPitch)))
        /\ clipEmitted' = dragging
        /\ UNCHANGED <<dragState, brushListener>>

\* the pointer moves to (x, y) while a gesture is in progress
PointerMove(x, y) ==
    /\ ~Idle
    /\ <<x, y>> # <<ptr.x, ptr.y>>
    /\ IF impl = "d3" THEN svgMouseMove(x, y) ELSE gridMouseMove(x, y)
    /\ ptr' = Pointer("move", x, y, FALSE)
    /\ UNCHANGED <<impl, selection, pressed, nextId, gestures, notes0, selection0, shift0>>
    /\ UNCHANGED <<startBeat, endBeat, lowNote, highNote, clipLength, last>>
    /\ UNCHANGED xVars

\* -------------------------------------------------------------- pointer-up

\* handleBrushUp leaves its listeners on the document
gridMouseUpKeepsListeners(x, y, shiftKey) ==
    LET listening == brushListener # None
        closure == brushListener[1]
        finalRect == [x1 |-> closure.x, y1 |-> closure.y, x2 |-> x, y2 |-> y]
        selectedIds == NotesInRectAt(closure.scales, closure.notes, finalRect)
    IN  /\ selection' = IF ~listening THEN selection
                        ELSE IF shiftKey THEN closure.selection \cup selectedIds
                        ELSE selectedIds
        /\ brushRect' = None
        /\ dragState' = INITIAL_DRAG_STATE
        /\ UNCHANGED <<brushListener, brushPreviewIds>>

\* handleGridMouseUp on the grid, then the document's handleBrushUp
gridMouseUp(x, y, shiftKey) ==
    LET over == InGrid(x, y) /\ dragState.type # "none"
        gridBrush == over /\ dragState.type = "brush" /\ brushRect # None
        gridIds == NotesInRect(notes, brushRect[1])
        afterGrid == IF ~gridBrush THEN selection
                     ELSE IF shiftKey THEN selection \cup gridIds ELSE gridIds
        listening == brushListener # None
        closure == brushListener[1]
        finalRect == [x1 |-> closure.x, y1 |-> closure.y, x2 |-> x, y2 |-> y]
        selectedIds == NotesInRectAt(closure.scales, closure.notes, finalRect)
    IN  /\ selection' = IF ~listening THEN afterGrid
                        ELSE IF shiftKey THEN closure.selection \cup selectedIds
                        ELSE selectedIds
        /\ brushRect' = IF gridBrush \/ listening THEN None ELSE brushRect
        /\ dragState' = IF over \/ listening THEN INITIAL_DRAG_STATE ELSE dragState
        /\ brushListener' = None
        /\ UNCHANGED brushPreviewIds

\* the 'end' handlers of the d3.drag and of the d3.brush
svgMouseUp ==
    LET brushing == brushListener # None
        rect == brushRect[1]
        \* d3 reports no selection for an empty rectangle
        empty == rect.x1 = rect.x2 \/ rect.y1 = rect.y2
        noteIds == NotesInRect(notes, rect)
    IN  /\ dragState' = INITIAL_DRAG_STATE
        /\ selection' = IF ~brushing \/ empty THEN selection
                        ELSE IF brushListener[1].shiftKey THEN selection \cup noteIds
                        ELSE noteIds
        /\ brushPreviewIds' = IF brushing THEN {} ELSE brushPreviewIds
        /\ brushRect' = None
        /\ brushListener' = None

PointerUp(shiftKey) ==
    /\ pressed
    /\ IF impl = "d3" THEN svgMouseUp ELSE gridMouseUp(ptr.x, ptr.y, shiftKey)
    /\ pressed' = FALSE
    \* the history of the gesture ends with it
    /\ ptr' = IF dragState'.type = "none" THEN Pointer("up", 0, 0, shiftKey)
              ELSE Pointer("up", ptr.x, ptr.y, shiftKey)
    /\ clamped' = (dragState'.type # "none" /\ clamped)
    /\ notes0' = IF dragState'.type = "none" THEN notes ELSE notes0
    /\ selection0' = IF dragState'.type = "none" THEN selection' ELSE selection0
    /\ shift0' = (dragState'.type # "none" /\ shift0)
    /\ clipEmitted' = FALSE
    /\ UNCHANGED <<impl, notes, nextId, gestures>>
    /\ UNCHANGED <<startBeat, endBeat, lowNote, highNote, clipLength, last>>
    /\ UNCHANGED xVars

\* ------------------------------------------------------------ double-click

\* no note is ever found under the pointer
doubleClickMiss(x, y) == FALSE

\* the test of handleGridDoubleClick / handleDoubleClick for a note under the
\* pointer: clip.notes.find, or event.target.closest('.note')
doubleClickHit(x, y) ==
    IF impl = "d3" THEN \E i \in 1..Len(notes) : OnNote(notes[i], x, y)
    ELSE clickedNote(x, y) # 0

\* handleGridDoubleClick / handleDoubleClick: a note of one grid unit where
\* no note is
DoubleClick(x, y) ==
    /\ ~pressed
    /\ gestures < MaxGestures
    /\ At(x, y)
    /\ InGrid(x, y)
    /\ LET free == ~doubleClickHit(x, y)
           pitch == IF impl = "d3" THEN yToPitch(y) ELSE pixelToPitch(y)
           newNote == MidiNote(nextId + 1, pitch, pixelToBeat(x), snapToBeat,
                               DEFAULT_VELOCITY)
       IN  IF free
           THEN /\ notes' = Append(notes, newNote)
                /\ selection' = {newNote.id}
                /\ nextId' = nextId + 1
                /\ clipEmitted' = TRUE
           ELSE /\ UNCHANGED <<notes, selection, nextId>>
                /\ clipEmitted' = FALSE
    /\ gestures' = gestures + 1
    /\ notes0' = IF dragState.type = "none" THEN notes' ELSE notes0
    /\ selection0' = IF dragState.type = "none" THEN selection' ELSE selection0
    /\ ptr' = Pointer("dblclick", x, y, FALSE)
    /\ UNCHANGED <<impl, dragState, brushRect, brushListener, brushPreviewIds,
                   pressed, clamped, shift0>>
    /\ UNCHANGED <<startBeat, endBeat, lowNote, highNote, clipLength, last>>
    /\ UNCHANGED xVars

\* ----------------------------------------------------------------- keyboard

\* the selected notes are the ones kept
onlySelected ==
    SelectSeq(notes, LAMBDA n : n.id \in selection)

\* clip.notes.filter((n) => !selection.has(n.id))
withoutSelected ==
    SelectSeq(notes, LAMBDA n : n.id \notin selection)

\* the notes are deleted and the selection is left as it was
KeyDownKeepsSelection ==
    LET acts == impl # "d3" \/ selection # {}
    IN  /\ notes' = IF acts THEN withoutSelected ELSE notes
        /\ clipEmitted' = acts
        /\ ptr' = [ptr EXCEPT !.kind = "key"]
        /\ UNCHANGED <<impl, selection, dragState, brushRect, brushListener,
                       brushPreviewIds, pressed, nextId, gestures, clamped, notes0,
                       selection0, shift0>>
        /\ UNCHANGED <<startBeat, endBeat, lowNote, highNote, clipLength, last>>
        /\ UNCHANGED xVars

\* the window's keydown listener on Delete or Backspace: deleteSelectedNotes
\* of PianoRoll, and handleKeyDown of the D3 grid, which acts on a non-empty
\* selection only
KeyDown ==
    LET acts == impl # "d3" \/ selection # {}
    IN  /\ notes' = IF acts THEN withoutSelected ELSE notes
        /\ selection' = IF acts THEN {} ELSE selection
        /\ clipEmitted' = acts
        /\ ptr' = [ptr EXCEPT !.kind = "key"]
        /\ UNCHANGED <<impl, dragState, brushRect, brushListener, brushPreviewIds,
                       pressed, nextId, gestures, clamped, notes0, selection0, shift0>>
        /\ UNCHANGED <<startBeat, endBeat, lowNote, highNote, clipLength, last>>
        /\ UNCHANGED xVars

\* ------------------------------------------------------ the gesture machine

InitGesture ==
    /\ InitViewport
    /\ clipLength = 16 * TicksPerBeat
    /\ last = Call("init", Center, NoArg, NoArg, 0)
    /\ \E engine \in {"inline", "hook", "d3"}, selected \in {{}, IdsOf(HostNotes)} :
          EditorIdle(engine, HostNotes, selected)

NextGesture ==
    \/ \E p \in Pointers, shiftKey \in BOOLEAN : PointerDown(p[1], p[2], shiftKey)
    \/ \E p \in Pointers : PointerMove(p[1], p[2])
    \/ \E shiftKey \in BOOLEAN : PointerUp(shiftKey)
    \/ \E p \in Pointers : DoubleClick(p[1], p[2])
    \/ KeyDown

SpecGesture == InitGesture /\ [][NextGesture]_vars


\* ------------------------------------------------------ viewport claims

\* the arguments of the call that produced the current state
LastAnchor == last.anchor[1]
InUnit(r) == 0 <= r[1] /\ r[1] <= r[2]

\* C1 as stated: after panZoomTime(anchorBeat, anchorRatio, zoomFactor) with
\* anchorBeat inside the old viewport and anchorRatio in [0,1], the anchor
\* sits at anchorRatio of the new viewport:
\* (anchorBeat - newStart) / newRange = anchorRatio.
C1_AnchorAlwaysKept ==
    [][(/\ last'.op = "panZoomTime"
        /\ startBeat <= last'.anchor[1] /\ last'.anchor[1] <= endBeat
        /\ InUnit(last'.ratio))
       => (last'.anchor[1] - startBeat') * last'.ratio[2]
            = last'.ratio[1] * (endBeat' - startBeat')]_vars

\* C1 as amended: the new range is the old range times zoomFactor clamped to
\* [minBeatsVisible, maxBeatsVisible]; the anchor sits at anchorRatio of the
\* new viewport whenever anchorBeat - anchorRatio * newRange >= 0, and
\* otherwise the new startBeat is 0.
C1_AnchorKeptUnlessClampedAtZero ==
    [][(/\ last'.op = "panZoomTime"
        /\ startBeat <= last'.anchor[1] /\ last'.anchor[1] <= endBeat
        /\ InUnit(last'.ratio))
       => LET a == last'.anchor[1]
              r == last'.ratio
              f == last'.factor
              newRange == endBeat' - startBeat'
          IN  /\ newRange * f[2] = Max(MinBeatTicks * f[2],
                                       Min(MaxBeatTicks * f[2], (endBeat - startBeat) * f[1]))
              /\ IF a * r[2] >= r[1] * newRange
                 THEN (a - startBeat') * r[2] = r[1] * newRange
                 ELSE startBeat' = 0]_vars

\* a zoom-in around beat 2 at the quarter of the view: the anchor is kept
C1_Witness ==
    /\ last.op = "panZoomTime"
    /\ last.ratio = <<1, 4>>
    /\ last.factor = <<1, 2>>
    /\ startBeat > 0
    /\ (LastAnchor - startBeat) * 4 = endBeat - startBeat

\* C2 as stated: after panZoomPitch(anchorPitch, anchorRatio, zoomFactor) with
\* anchorPitch inside the old viewport and anchorRatio in [0,1] (0 = top),
\* (newHigh - anchorPitch) / (newHigh - newLow) = anchorRatio.
C2_PitchAnchorAlwaysKept ==
    [][(/\ last'.op = "panZoomPitch"
        /\ lowNote <= last'.anchor[1] /\ last'.anchor[1] <= highNote
        /\ InUnit(last'.ratio))
       => (highNote' - last'.anchor[1]) * last'.ratio[2]
            = last'.ratio[1] * (highNote' - lowNote')]_vars

\* C2 as amended: the new range is the old range times zoomFactor clamped to
\* [minNotesVisible, maxNotesVisible]; newHigh = anchorPitch + anchorRatio *
\* newRange and newLow = newHigh - newRange whenever that keeps the viewport
\* inside [0, 127]; otherwise the viewport is [0, newRange] (when newLow
\* would be negative) or [127 - newRange, 127] (when newHigh would exceed 127).
C2_PitchAnchorKeptUnlessClamped ==
    [][(/\ last'.op = "panZoomPitch"
        /\ lowNote <= last'.anchor[1] /\ last'.anchor[1] <= highNote
        /\ InUnit(last'.ratio))
       => LET a == last'.anchor[1]
              r == last'.ratio
              f == last'.factor
              newRange == highNote' - lowNote'
              high0 == a * r[2] + r[1] * newRange
          IN  /\ newRange * f[2] = Max(MinNoteTicks * f[2],
                                       Min(MaxNoteTicks * f[2], (highNote - lowNote) * f[1]))
              /\ IF high0 - newRange * r[2] < 0
                 THEN lowNote' = 0 /\ highNote' = newRange
                 ELSE IF high0 > MidiMaxTicks * r[2]
                 THEN highNote' = MidiMaxTicks /\ lowNote' = MidiMaxTicks - newRange
                 ELSE /\ (highNote' - a) * r[2] = r[1] * newRange
                      /\ lowNote' = highNote' - newRange]_vars

\* a zoom-in around pitch 60 at the middle of the view: the anchor is kept
C2_Witness ==
    /\ last.op = "panZoomPitch"
    /\ last.ratio = <<1, 2>>
    /\ last.factor = <<1, 2>>
    /\ lowNote > 0 /\ highNote < MidiMaxTicks
    /\ (highNote - LastAnchor) * 2 = highNote - lowNote

\* C3: from the default configuration and any clipLength > 0, after any
\* sequence of viewport calls startBeat >= 0, endBeat > startBeat and
\* 0 <= lowNote < highNote <= 127.
C3_ViewportInvariant ==
    /\ startBeat >= 0
    /\ endBeat > startBeat
    /\ 0 <= lowNote
    /\ lowNote < highNote
    /\ highNote <= MidiMaxTicks

\* a cursor ratio outside [0,1] clamped at beat 0, the pitch axis at the top
C3_Witness ==
    /\ last.op = "panZoomTime"
    /\ last.ratio = <<3, 2>>
    /\ startBeat = 0
    /\ highNote = MidiMaxTicks

RangesInLimits ==
    /\ MinBeatTicks <= endBeat - startBeat
    /\ endBeat - startBeat <= MaxBeatTicks
    /\ MinNoteTicks <= highNote - lowNote
    /\ highNote - lowNote <= MaxNoteTicks

\* C4: the visible ranges stay within [minBeatsVisible, maxBeatsVisible] and
\* [minNotesVisible, maxNotesVisible]; every zoom call ends with the range
\* max(min, min(max, oldRange * factor)), so a factor that would leave the
\* limits is capped at the limit.
C4_ZoomCapped ==
    /\ RangesInLimits
    /\ [][/\ RangesInLimits'
          /\ last'.op \in {"zoomTime", "panZoomTime"}
               => (endBeat' - startBeat') * last'.factor[2]
                    = Max(MinBeatTicks * last'.factor[2],
                          Min(MaxBeatTicks * last'.factor[2],
                              (endBeat - startBeat) * last'.factor[1]))
          /\ last'.op \in {"zoomPitch", "panZoomPitch"}
               => (highNote' - lowNote') * last'.factor[2]
                    = Max(MinNoteTicks * last'.factor[2],
                          Min(MaxNoteTicks * last'.factor[2],
                              (highNote - lowNote) * last'.factor[1]))]_vars

\* a zoom-out by 100 capped at 88 notes, the time axis zoomed in to its minimum
C4_Witness ==
    /\ last.op = "zoomPitch"
    /\ last.factor = <<100, 1>>
    /\ highNote - lowNote = MaxNoteTicks
    /\ endBeat - startBeat = MinBeatTicks

\* C5: panTime(deltaBeats) keeps endBeat - startBeat, lowNote and highNote;
\* when clipLength exceeds the visible range the result has startBeat >= 0
\* and endBeat <= clipLength, and when the visible range is at least
\* clipLength the result has startBeat = 0.
C5_PanTimeClamped ==
    [][last'.op = "panTime"
       => /\ endBeat' - startBeat' = endBeat - startBeat
          /\ lowNote' = lowNote /\ highNote' = highNote
          /\ clipLength > endBeat - startBeat
               => startBeat' >= 0 /\ endBeat' <= clipLength
          /\ endBeat - startBeat >= clipLength => startBeat' = 0]_vars

\* a pan to the right stopped at the end of the clip
C5_Witness ==
    /\ last.op = "panTime"
    /\ last.delta > 0
    /\ startBeat > 0
    /\ endBeat = clipLength

\* ------------------------------------------------------- gesture claims

\* the pitch row of a pixel, as the engine in use converts it
RowOf(y) == IF impl = "d3" THEN yToPitch(y) ELSE pixelToPitch(y)

\* how far the pointer at p is from where the button went down, in snapped
\* beats and in pitch rows
GrabDeltaBeat(p) == pixelToBeat(p.x) - pixelToBeat(dragState.startX)
GrabDeltaPitch(p) == RowOf(p.y) - RowOf(dragState.startY)

\* the pointer-move to p reaches the gesture's handler: the grid's handlers
\* see the pointer inside the grid, d3's see it while the button is down
Handled(p) == p.kind = "move" /\ IF impl = "d3" THEN pressed ELSE InGrid(p.x, p.y)

\* the notes a resize edits and their gesture-start dimensions
ResizeSnapshot ==
    IF impl = "inline" THEN (dragState.noteId :> dragState.originalNote[1])
    ELSE dragState.originalSelectedNotesForResize

\* C6: on every pointer-move of a move gesture each note of the snapshot
\* gets startBeat = max(0, originalStartBeat + deltaBeat) and pitch =
\* clamp(originalPitch + deltaPitch, 0, 127), the deltas being the same for
\* all of them, and nothing else of the clip changes.
C6_MoveFrame ==
    [][(dragState.type = "move" /\ Handled(ptr')) =>
        /\ Len(notes') = Len(notes)
        /\ \A i \in 1..Len(notes) :
              IF notes[i].id \in DOMAIN dragState.originalSelectedNotes
              THEN LET original == dragState.originalSelectedNotes[notes[i].id]
                   IN  notes'[i] =
                         [notes[i] EXCEPT
                            !.startBeat = Max(0, original.startBeat + GrabDeltaBeat(ptr')),
                            !.pitch = clamp(original.pitch + GrabDeltaPitch(ptr'), 0, MidiMaxTicks)]
              ELSE notes'[i] = notes[i]]_vars

\* the example of the claim: the note at beat 0, pitch 60, one beat long,
\* grabbed at beat 0.5 and dragged to beat 2.5 on the row of pitch 64
C6_Witness ==
    /\ dragState.type = "move"
    /\ Handled(ptr)
    /\ pixelToBeat(dragState.startX) = TicksPerBeat \div 2
    /\ RowOf(dragState.startY) = 60 * TicksPerNote
    /\ pixelToBeat(ptr.x) = (5 * TicksPerBeat) \div 2
    /\ RowOf(ptr.y) = 64 * TicksPerNote
    /\ notes0[1] = MidiNote(1, 60 * TicksPerNote, 0, TicksPerBeat, DEFAULT_VELOCITY)
    /\ notes[1] = MidiNote(1, 64 * TicksPerNote, 2 * TicksPerBeat, TicksPerBeat,
                           DEFAULT_VELOCITY)

\* C7: during a move gesture the position of every moved note is a function
\* of the clip at the press and of the pointer's position alone, whatever
\* positions the pointer went through.
C7_PathIndependent ==
    (dragState.type = "move" /\ Handled(ptr)) =>
        \A i \in 1..Len(notes) :
            notes[i].id \in DOMAIN dragState.originalSelectedNotes =>
                \E j \in 1..Len(notes0) :
                    /\ notes0[j].id = notes[i].id
                    /\ notes[i] =
                         [notes0[j] EXCEPT
                            !.startBeat = Max(0, notes0[j].startBeat + GrabDeltaBeat(ptr)),
                            !.pitch = clamp(notes0[j].pitch + GrabDeltaPitch(ptr), 0, MidiMaxTicks)]

\* a move gesture in its second frame or later, an earlier frame of which
\* clamped a note, with the moved notes now away from where they started
C7_Witness ==
    /\ dragState.type = "move"
    /\ Handled(ptr)
    /\ clamped
    /\ ~Clamps(GrabDeltaBeat(ptr), GrabDeltaPitch(ptr))
    /\ GrabDeltaBeat(ptr) > 0
    /\ GrabDeltaPitch(ptr) # 0
    /\ dragState.originalSelectedNotes # None

\* C8: on every pointer-move of a resize-start gesture each note of the
\* snapshot keeps its end beat while startBeat becomes max(0, originalStart
\* + deltaBeat); where that would leave a duration below snapToBeat the note
\* is left as it is, and a duration equal to snapToBeat is applied.
C8_ResizeStartFrame ==
    [][(dragState.type = "resize-start" /\ Handled(ptr')) =>
        /\ Len(notes') = Len(notes)
        /\ \A i \in 1..Len(notes) :
              IF notes[i].id \in DOMAIN ResizeSnapshot
              THEN LET original == ResizeSnapshot[notes[i].id]
                       newStart == Max(0, original.startBeat + GrabDeltaBeat(ptr'))
                       newDuration == original.startBeat + original.duration - newStart
                   IN  IF newDuration < snapToBeat
                       THEN notes'[i] = notes[i]
                       ELSE notes'[i] = [notes[i] EXCEPT !.startBeat = newStart,
                                                         !.duration = newDuration]
              ELSE notes'[i] = notes[i]]_vars

\* the handler inside PianoRoll has taken a resize-start frame that leaves
\* exactly one grid unit, and the note is as it was at the press
C8_Witness ==
    /\ impl = "inline"
    /\ dragState.type = "resize-start"
    /\ Handled(ptr)
    /\ LET original == dragState.originalNote[1]
           newStart == Max(0, original.startBeat + GrabDeltaBeat(ptr))
       IN  /\ original.startBeat + original.duration - newStart = snapToBeat
           /\ notes = notes0

\* C9: every note of the clip has a duration of at least snapToBeat, after
\* any sequence of create, move and resize gestures.
C9_DurationFloor ==
    \A i \in 1..Len(notes) : notes[i].duration >= snapToBeat

\* a resize frame that would leave a note shorter than one grid unit has
\* run, after an earlier gesture
C9_Witness ==
    /\ gestures >= 2
    /\ dragState.type \in {"resize-start", "resize-end"}
    /\ Handled(ptr)
    /\ \E id \in DOMAIN ResizeSnapshot :
          LET original == ResizeSnapshot[id]
              newStart == Max(0, original.startBeat + GrabDeltaBeat(ptr))
          IN  IF dragState.type = "resize-start"
              THEN original.startBeat + original.duration - newStart < snapToBeat
              ELSE original.duration + GrabDeltaBeat(ptr) < snapToBeat

\* C10: on every pointer-move of a resize-end gesture each note of the
\* snapshot gets duration = max(snapToBeat, originalDuration + deltaBeat),
\* and its startBeat and pitch, like the rest of the clip, stay as they are.
C10_ResizeEndFrame ==
    [][(dragState.type = "resize-end" /\ Handled(ptr')) =>
        /\ Len(notes') = Len(notes)
        /\ \A i \in 1..Len(notes) :
              IF notes[i].id \in DOMAIN ResizeSnapshot
              THEN notes'[i] =
                     [notes[i] EXCEPT !.duration =
                        Max(snapToBeat,
                            ResizeSnapshot[notes[i].id].duration + GrabDeltaBeat(ptr'))]
              ELSE notes'[i] = notes[i]]_vars

\* a resize-end frame has lengthened a note, and another has held one at
\* the floor of one grid unit
C10_Witness ==
    /\ dragState.type = "resize-end"
    /\ Handled(ptr)
    /\ \E i \in 1..Len(notes) :
          /\ notes[i].id \in DOMAIN ResizeSnapshot
          /\ ResizeSnapshot[notes[i].id].duration + GrabDeltaBeat(ptr) < snapToBeat
          /\ notes[i].duration = snapToBeat
          /\ notes[i].duration < ResizeSnapshot[notes[i].id].duration

\* the note of the clip at the press that has this id
AtPress(id) == notes0[CHOOSE j \in 1..Len(notes0) : notes0[j].id = id]

\* the notes a resize is to edit: the selection at the press when the pressed
\* note is in it, the pressed note alone otherwise
ResizeSet ==
    IF dragState.noteId \in selection0 THEN selection0 ELSE {dragState.noteId}

\* a handled pointer-move of a resize gesture edits the notes of ResizeSet,
\* each from its own dimensions at the press and all by the same delta, and
\* no other note; a resize-start that would leave exactly one grid unit may
\* be applied or dropped
ResizeSetFrame ==
    (dragState.type \in {"resize-start", "resize-end"} /\ Handled(ptr')) =>
        /\ Len(notes') = Len(notes)
        /\ \A i \in 1..Len(notes) :
              IF notes[i].id \in ResizeSet
              THEN LET original == AtPress(notes[i].id)
                       deltaBeat == GrabDeltaBeat(ptr')
                       newStart == Max(0, original.startBeat + deltaBeat)
                       newDuration == original.startBeat + original.duration - newStart
                       shortened == [notes[i] EXCEPT !.startBeat = newStart,
                                                     !.duration = newDuration]
                   IN  IF dragState.type = "resize-end"
                       THEN notes'[i] = [notes[i] EXCEPT !.duration =
                                            Max(snapToBeat, original.duration + deltaBeat)]
                       ELSE IF newDuration > snapToBeat THEN notes'[i] = shortened
                       ELSE IF newDuration < snapToBeat THEN notes'[i] = notes[i]
                       ELSE notes'[i] \in {notes[i], shortened}
              ELSE notes'[i] = notes[i]

\* C11: a resize that starts on a selected note resizes exactly the selected
\* notes, each against its own original start and duration with the same
\* beat delta; one that starts on an unselected note resizes that note only.
C11_ResizeSet == [][ResizeSetFrame]_vars

\* the handler inside PianoRoll has taken a resize-end frame that lengthens
\* the pressed note, which was selected together with other notes at the
\* press, and another selected note is as long as it was
C11_Witness ==
    /\ impl = "inline"
    /\ dragState.type = "resize-end"
    /\ Handled(ptr)
    /\ GrabDeltaBeat(ptr) > 0
    /\ dragState.noteId \in selection0
    /\ \E i \in 1..Len(notes) :
          /\ notes[i].id = dragState.noteId
          /\ notes[i].duration = AtPress(notes[i].id).duration + GrabDeltaBeat(ptr)
    /\ \E i \in 1..Len(notes) :
          /\ notes[i].id \in selection0 \ {dragState.noteId}
          /\ notes[i].duration = AtPress(notes[i].id).duration

\* C12: a pointer-down on a note body without shift makes the selection
\* {that note} when the note is unselected and leaves it as it is when the
\* note is selected; with shift it toggles the note and keeps the others.
C12_BodyPress ==
    [][(~pressed /\ pressed' /\ dragState'.type = "move") =>
        LET id == dragState'.noteId
        IN  selection' =
              IF ptr'.shiftKey
              THEN IF id \in selection THEN selection \ {id} ELSE selection \cup {id}
              ELSE IF id \in selection THEN selection ELSE {id}]_vars

\* a shift-press on the body of a selected note has taken it out of the
\* selection and kept the others
C12_Witness ==
    /\ pressed
    /\ ptr.kind = "down"
    /\ ptr.shiftKey
    /\ dragState.type = "move"
    /\ dragState.noteId \in selection0
    /\ selection = selection0 \ {dragState.noteId}
    /\ selection # {}

\* the hit-test of the pointer-down handlers finds no note at (x, y)
EmptySpace(x, y) ==
    IF impl = "d3" THEN \A i \in 1..Len(notes) : ~OnNote(notes[i], x, y)
    ELSE clickedNote(x, y) = 0

\* a brush is in progress: its rectangle is up and its handlers listen
Brushing == brushRect # None /\ brushListener # None

\* a pointer-down on empty space starts a brush and clears the selection
\* exactly when shift is not held
BrushPress ==
    (~pressed /\ pressed' /\ EmptySpace(ptr'.x, ptr'.y)) =>
        /\ Brushing'
        /\ selection' = IF ptr'.shiftKey THEN selection ELSE {}

\* C13: a pointer-down on empty grid space enters the brush state and clears
\* the selection if and only if shift is not held; with shift held the
\* selection is kept while the brush is in progress.
C13_BrushPress ==
    [][/\ BrushPress
       /\ (Brushing /\ shift0 /\ ptr'.kind = "move") => selection' = selection]_vars

\* usePianoRollDrag has started a brush on a shift-press over a non-empty
\* selection, and the selection is empty
C13_Witness ==
    /\ impl = "hook"
    /\ pressed
    /\ ptr.kind = "down"
    /\ ptr.shiftKey
    /\ dragState.type = "brush"
    /\ Brushing
    /\ selection0 # {}
    /\ selection = {}

\* the release of a brush commits the notes that intersect its final
\* rectangle: united with the selection from before the brush when shift is
\* held from press to release, alone when it is not held
BrushRelease ==
    (pressed /\ ~pressed' /\ Brushing) =>
        LET intersecting == NotesInRect(notes, brushRect[1])
        IN  /\ (shift0 /\ ptr'.shiftKey) => selection' = selection0 \cup intersecting
            /\ (~shift0 /\ ~ptr'.shiftKey) => selection' = intersecting

\* C14: when a brush is released the selection becomes the selection from
\* before the brush united with the notes intersecting the final rectangle
\* if shift is held, and exactly the notes intersecting it otherwise.
C14_BrushRelease == [][BrushRelease]_vars

\* the D3 brush has been dragged along a horizontal line that crosses a
\* note, shift not held
C14_Witness ==
    /\ impl = "d3"
    /\ pressed
    /\ Brushing
    /\ ~shift0
    /\ brushRect[1].y1 = brushRect[1].y2
    /\ brushRect[1].x1 # brushRect[1].x2
    /\ NotesInRect(notes, brushRect[1]) # {}

\* corners of brush rectangles, in pixels: the corners of the box of the
\* one-beat note at beat 0 on pitch 60, the pixel past its lower right
\* corner, a point inside it, and points above it to its right and left
Corners ==
    { <<0, 240>>, <<40, 250>>, <<41, 251>>, <<20, 245>>, <<100, 205>>, <<-10, 200>> }

Rect(c1, c2) == [x1 |-> c1[1], y1 |-> c1[2], x2 |-> c2[1], y2 |-> c2[2]]

\* the axis-aligned overlap test on the note's box [beatToX(start),
\* beatToX(start + duration)] x [pitchToY(pitch), pitchToY(pitch) +
\* noteHeight] and the rectangle: each begins no later than the other ends
Overlaps(note, rect) ==
    LET left == Min(rect.x1, rect.x2) * beatsVisible
        right == Max(rect.x1, rect.x2) * beatsVisible
        top == Min(rect.y1, rect.y2) * noteRange
        bottom == Max(rect.y1, rect.y2) * noteRange
    IN  /\ XNum(note.startBeat) <= right
        /\ left <= XNum(note.startBeat + note.duration)
        /\ YNum(note.pitch) <= bottom
        /\ top <= YNum(note.pitch) + NoteHeightNum

\* the box and the rectangle share no more than an edge or a corner
Touches(note, rect) ==
    /\ Overlaps(note, rect)
    /\ \/ XNum(note.startBeat) = Max(rect.x1, rect.x2) * beatsVisible
       \/ XNum(note.startBeat + note.duration) = Min(rect.x1, rect.x2) * beatsVisible
       \/ YNum(note.pitch) = Max(rect.y1, rect.y2) * noteRange
       \/ YNum(note.pitch) + NoteHeightNum = Min(rect.y1, rect.y2) * noteRange

\* C15: for every clip and every brush rectangle, its corners in any order,
\* the brush selects exactly the notes whose box overlaps the rectangle,
\* boxes that only touch at an edge or a corner included; the preview of the
\* D3 brush is that set for its rectangle.
C15_BrushOverlap ==
    /\ \A c1 \in Corners, c2 \in Corners :
          NotesInRect(notes, Rect(c1, c2)) =
              {notes[i].id : i \in {j \in 1..Len(notes) : Overlaps(notes[j], Rect(c1, c2))}}
    /\ (impl = "d3" /\ pressed /\ Brushing /\ ptr.kind = "move") =>
          brushPreviewIds =
              {notes[i].id : i \in {j \in 1..Len(notes) : Overlaps(notes[j], brushRect[1])}}

\* in a clip the gestures have changed, a rectangle with its corners in
\* reverse order touches the box of a note at a corner only and selects it,
\* and the D3 brush previews a note its rectangle touches
C15_Witness ==
    /\ notes # HostNotes
    /\ \E i \in 1..Len(notes), c1 \in Corners, c2 \in Corners :
          /\ c1[1] > c2[1] /\ c1[2] > c2[2]
          /\ XNum(notes[i].startBeat) = c1[1] * beatsVisible
          /\ YNum(notes[i].pitch) = c1[2] * noteRange
          /\ notes[i].id \in NotesInRect(notes, Rect(c1, c2))
    /\ impl = "d3" /\ pressed /\ Brushing /\ ptr.kind = "move"
    /\ \E i \in 1..Len(notes) :
          /\ Touches(notes[i], brushRect[1])
          /\ notes[i].id \in brushPreviewIds

\* the event of this step is a double-click at (ptr'.x, ptr'.y)
IsDoubleClick == ptr'.kind = "dblclick" /\ gestures' = gestures + 1

\* the beat is a multiple of snapToBeat
OnGridLine(beat) == beat % snapToBeat = 0

\* no multiple of snapToBeat is nearer than the beat is to the beat of pixel
\* x, which is (startBeat * gridWidth + x * beatsVisible) / gridWidth
NearestTo(beat, x) ==
    LET exact == startBeat * gridWidth + x * beatsVisible
        off == beat * gridWidth - exact
    IN  2 * off <= snapToBeat * gridWidth /\ -2 * off <= snapToBeat * gridWidth

\* pixel y lies in the row of the pitch: pitchToY(pitch) <= y < pitchToY(pitch)
\* + noteHeight
InRow(pitch, y) ==
    YNum(pitch) <= y * noteRange /\ y * noteRange < YNum(pitch) + NoteHeightNum

C17_DoubleClickOnNote ==
    [][(IsDoubleClick /\ ~EmptySpace(ptr'.x, ptr'.y)) =>
        /\ notes' = notes
        /\ selection' = selection
        /\ ~clipEmitted']_vars

\* a double-click has landed on a note that an earlier gesture moved under
\* the pointer, and the clip is what it was
C17_Witness ==
    /\ ptr.kind = "dblclick"
    /\ gestures = 2
    /\ ~EmptySpace(ptr.x, ptr.y)
    /\ Len(notes) = Len(HostNotes)
    /\ notes # HostNotes
    /\ ~clipEmitted

\* the event of this step is a Delete or Backspace key press
IsKeyDown == ptr'.kind = "key"

\* the clip after the step holds the unselected notes of the clip before it,
\* as they were and in the order they had
UnselectedKept ==
    LET kept == {j \in 1..Len(notes) : notes[j].id \notin selection}
    IN  /\ Len(notes') = Cardinality(kept)
        /\ \A j \in kept : \E i \in 1..Len(notes') : notes'[i] = notes[j]
        /\ \A i1 \in 1..Len(notes'), i2 \in 1..Len(notes') :
              i1 < i2 => \E j1 \in kept, j2 \in kept :
                            j1 < j2 /\ notes'[i1] = notes[j1] /\ notes'[i2] = notes[j2]

\* C18 as stated: a Delete or Backspace key press, in any gesture state,
\* emits a clip of exactly the unselected notes, in their order and as they
\* were, and empties the selection.
C18_DeleteAlwaysEmits ==
    [][IsKeyDown => (clipEmitted' /\ UnselectedKept /\ selection' = {})]_vars

\* C18: a Delete or Backspace key press, in any gesture state, leaves in the
\* clip exactly the unselected notes, in their order and as they were, and
\* leaves the selection empty; it emits the clip whenever some note was
\* selected, and the D3 grid emits none when the selection was empty.
C18_DeleteSelected ==
    [][IsKeyDown =>
        /\ UnselectedKept
        /\ selection' = {}
        /\ selection # {} => clipEmitted'
        /\ (selection = {} /\ impl = "d3") => ~clipEmitted']_vars

\* a key press in the middle of a move gesture has taken the selected notes
\* out of the clip and left others in it
C18_Witness ==
    /\ ptr.kind = "key"
    /\ pressed
    /\ dragState.type = "move"
    /\ clipEmitted
    /\ selection = {}
    /\ Len(notes) < Len(notes0)
    /\ Len(notes) > 0

\* the pointer-up of this step leaves no gesture behind: the drag state is
\* the initial one, snapshots included, and there is no brush rectangle
GestureEnds ==
    (pressed /\ ~pressed') => (dragState' = INITIAL_DRAG_STATE /\ brushRect' = None)

\* a pointer-move with the button up changes no note and no selection
NoLateFrame ==
    (~pressed /\ ptr'.kind = "move") => (notes' = notes /\ selection' = selection)

\* C19: whatever gesture is active and wherever the pointer is released, the
\* grid or outside it, the pointer-up sets the drag state to none and clears
\* the snapshot and the brush rectangle, and no pointer-move changes a note
\* or the selection until the next pointer-down.
C19_PointerUpCleansUp == [][GestureEnds /\ NoLateFrame]_vars

\* the button was released outside the grid in a move gesture of
\* usePianoRollDrag, and a pointer-move back on the grid has been handled
\* as a frame of that gesture
C19_Witness ==
    /\ impl = "hook"
    /\ ~pressed
    /\ dragState.type = "move"
    /\ dragState.originalSelectedNotes # None
    /\ Handled(ptr)
    /\ clipEmitted
    /\ notes # notes0

\* the types of the gestures that edit notes
Editing == {"move", "resize-start", "resize-end"}

\* the clip after the step is the frame of the gesture for the pointer at
\* ptr': the snapshot moved by the pointer's deltas in a move, the notes of
\* ResizeSet resized by its beat delta in a resize
FrameApplied ==
    /\ Len(notes') = Len(notes)
    /\ \A i \in 1..Len(notes) :
          IF dragState.type = "move"
          THEN IF notes[i].id \in DOMAIN dragState.originalSelectedNotes
               THEN LET original == dragState.originalSelectedNotes[notes[i].id]
                    IN  notes'[i] =
                          [notes[i] EXCEPT
                             !.startBeat = Max(0, original.startBeat + GrabDeltaBeat(ptr')),
                             !.pitch = clamp(original.pitch + GrabDeltaPitch(ptr'), 0, MidiMaxTicks)]
               ELSE notes'[i] = notes[i]
          ELSE IF notes[i].id \in DOMAIN ResizeSnapshot
               THEN LET original == ResizeSnapshot[notes[i].id]
                        deltaBeat == GrabDeltaBeat(ptr')
                        newStart == Max(0, original.startBeat + deltaBeat)
                        newDuration == original.startBeat + original.duration - newStart
                        shortened == [notes[i] EXCEPT !.startBeat = newStart,
                                                      !.duration = newDuration]
                    IN  IF dragState.type = "resize-end"
                        THEN notes'[i] = [notes[i] EXCEPT !.duration =
                                             Max(snapToBeat, original.duration + deltaBeat)]
                        ELSE IF newDuration > snapToBeat THEN notes'[i] = shortened
                        ELSE IF newDuration < snapToBeat THEN notes'[i] = notes[i]
                        ELSE notes'[i] \in {notes[i], shortened}
               ELSE notes'[i] = notes[i]

\* while the button is down in a move or a resize, a pointer-move to a place
\* off the grid keeps the drag state and applies its frame
LeaveKeepsGesture ==
    (pressed /\ dragState.type \in Editing /\ ptr'.kind = "move"
        /\ ~InGrid(ptr'.x, ptr'.y)) =>
            (dragState' = dragState /\ FrameApplied)

\* a move or a resize keeps its drag state while the button stays down
EndsAtPointerUp ==
    (pressed /\ pressed' /\ dragState.type \in Editing) => dragState' = dragState

\* C20: a pointer-leave of the editing surface during a move or a resize
\* does not end the gesture: the drag state keeps its type and snapshot,
\* pointer-moves outside the surface keep updating the notes, and the
\* gesture ends only at pointer-up.
C20_LeaveKeepsGesture == [][LeaveKeepsGesture /\ EndsAtPointerUp]_vars

\* the pointer has left the grid with the button down after a move or a
\* resize began in the handlers inside PianoRoll, and the drag state is none
C20_Witness ==
    /\ impl = "inline"
    /\ pressed
    /\ brushListener = None
    /\ ptr.kind = "move"
    /\ ~InGrid(ptr.x, ptr.y)
    /\ dragState.type = "none"


\* ------------------------------------------------ editing under a moving viewport

\* the wheel deltas: deltaY * notesPerPixel * 0.5 and deltaX * beatsPerPixel * 0.5
\* are fractions of a note and of a beat
WheelNotes == {1, -1}
WheelBeats == {1}

\* one wheel event: createWheelHandler pans the viewport
wheel ==
    \/ \E deltaNotes \in WheelNotes : panPitch(deltaNotes)
    \/ \E deltaBeats \in WheelBeats : panTime(deltaBeats)

\* one wheel event per run keeps the state space finite
NextEdit ==
    \/ NextGesture
    \/ last.op = "init" /\ wheel

SpecEdit == InitGesture /\ [][NextEdit]_vars

\* C21: every note of the clip has an integer pitch in 0..127, a start not
\* before beat 0, a positive duration and a velocity in [0,1], whatever the
\* gestures and the pans of the viewport before and between them
NoteInDomain(n) ==
    /\ n.pitch % TicksPerNote = 0
    /\ 0 <= n.pitch /\ n.pitch <= MidiMaxTicks
    /\ n.startBeat >= 0
    /\ n.duration > 0
    /\ 0 <= n.velocity[1] /\ n.velocity[1] <= n.velocity[2]

C21_NotesInDomain == \A i \in DOMAIN notes : NoteInDomain(notes[i])

\* a double click on empty space under a viewport panned by a fraction of a note
C21_Witness ==
    /\ ptr.kind = "dblclick"
    /\ highNote % TicksPerNote # 0
    /\ clipEmitted

\* the beat under pixel x before snapping, as a numerator over gridWidth
RawBeatNum(x) == startBeat * gridWidth + x * beatsVisible

\* snap(currentBeat, snapToBeat) - snap(startBeat, snapToBeat) of the frame with
\* the pointer at p: useD3NoteDrag converts the press position again on every
\* frame, usePianoRollDrag and PianoRoll keep the beat snapped at the press
SnappedDelta(p) ==
    snap(RawBeatNum(p.x), gridWidth, snapToBeat)
      - (IF impl = "d3" THEN snap(RawBeatNum(dragState.startX), gridWidth, snapToBeat)
         ELSE dragState.startBeat)

AllOnGrid(clipNotes) ==
    \A i \in DOMAIN clipNotes :
        OnGridLine(clipNotes[i].startBeat) /\ OnGridLine(clipNotes[i].duration)

\* C22: the beat delta of every move and resize frame is
\* snap(currentBeat) - snap(startBeat), a multiple of snapToBeat: a moved note
\* starts at max(0, original + delta), an end-resized one lasts
\* max(snapToBeat, original + delta), and notes whose start and duration are
\* multiples of snapToBeat stay so after every step
C22_SnappedDeltas ==
    [][/\ AllOnGrid(notes) => AllOnGrid(notes')
       /\ (Handled(ptr') /\ dragState.type \in {"move", "resize-end"}) =>
            /\ OnGridLine(SnappedDelta(ptr'))
            /\ \A i \in 1..Len(notes) :
                  /\ (dragState.type = "move"
                        /\ notes[i].id \in DOMAIN dragState.originalSelectedNotes) =>
                        notes'[i].startBeat =
                          Max(0, dragState.originalSelectedNotes[notes[i].id].startBeat
                                   + SnappedDelta(ptr'))
                  /\ (dragState.type = "resize-end"
                        /\ notes[i].id \in DOMAIN ResizeSnapshot) =>
                        notes'[i].duration =
                          Max(snapToBeat, ResizeSnapshot[notes[i].id].duration
                                            + SnappedDelta(ptr'))]_vars

\* a move frame under a viewport panned off the grid, the pointer between two
\* grid lines, the notes moved by a delta that is not zero
C22_Witness ==
    /\ dragState.type = "move"
    /\ Handled(ptr)
    /\ ~OnGridLine(startBeat)
    /\ RawBeatNum(ptr.x) % (gridWidth * snapToBeat) # 0
    /\ \E i \in 1..Len(notes) : notes[i].startBeat # notes0[i].startBeat
    /\ AllOnGrid(notes)


\* ------------------------------------------------------ zoom claims

\* C23: zoomTime(factor, anchorBeat) puts startBeat at
\* max(0, anchor - anchorRatio * newRange), anchorRatio being
\* (anchor - startBeat) / range and the anchor the viewport's centre when none
\* is given, with no clamp against the clip length
C23_ZoomTimeStart ==
    [][last'.op = "zoomTime" =>
         LET range == endBeat - startBeat
             newRange == endBeat' - startBeat'
             anchor == last'.anchor
             an == IF anchor = Center THEN 2 * startBeat + range ELSE anchor[1]
             ad == IF anchor = Center THEN 2 ELSE 1
             \* (anchor - anchorRatio * newRange) * range * ad
             exact == an * range - (an - startBeat * ad) * newRange
         IN  startBeat' * range * ad = Max(0, exact)]_vars

\* a zoom whose anchored start lies past clipLength - newRange
C23_Witness ==
    /\ last.op = "zoomTime"
    /\ startBeat > 0
    /\ endBeat = clipLength

\* the viewports the host may start from (initialBeats, initialLowNote,
\* initialHighNote), and the factors of a zoom-out and of a zoom-in
ZoomInitBeats == {1, 8, 24, 64}
ZoomInitNotes == {<<36, 84>>, <<60, 72>>, <<20, 108>>}
ZoomOutFactors == {<<2, 1>>, <<100, 1>>}
ZoomInFactors == {<<1, 2>>, <<1, 100>>}
ZoomRatios == {<<0, 1>>, <<1, 2>>, <<1, 1>>}

InitZoom ==
    /\ startBeat = 0
    /\ \E b \in ZoomInitBeats : endBeat = b * TicksPerBeat
    /\ \E n \in ZoomInitNotes :
          lowNote = n[1] * TicksPerNote /\ highNote = n[2] * TicksPerNote
    /\ clipLength \in ClipLengths
    /\ last = Call("init", Center, NoArg, NoArg, 0)
    /\ EditorIdle("d3", << >>, {})

\* the run repeats the direction of its first zoom
ZoomingOut == last.op = "init" \/ last.factor[1] > last.factor[2]
ZoomingIn == last.op = "init" \/ last.factor[1] < last.factor[2]

TimeZoom(factors) ==
    \/ \E f \in factors, a \in Given(JointAnchorBeats) \cup {Center} : zoomTime(f, a)
    \/ \E f \in factors, a \in JointAnchorBeats, r \in ZoomRatios : panZoomTime(a, r, f)

PitchZoom(factors) ==
    \/ \E f \in factors, a \in Given(JointAnchorPitches) \cup {Center} : zoomPitch(f, a)
    \/ \E f \in factors, a \in JointAnchorPitches, r \in ZoomRatios : panZoomPitch(a, r, f)

ZoomOutTime == ZoomingOut /\ TimeZoom(ZoomOutFactors)
ZoomOutPitch == ZoomingOut /\ PitchZoom(ZoomOutFactors)
ZoomInTime == ZoomingIn /\ TimeZoom(ZoomInFactors)
ZoomInPitch == ZoomingIn /\ PitchZoom(ZoomInFactors)

NextZoom == ZoomOutTime \/ ZoomOutPitch \/ ZoomInTime \/ ZoomInPitch

\* the zoom is repeated on each axis for as long as it changes anything
SpecZoom ==
    /\ InitZoom /\ [][NextZoom]_vars
    /\ WF_vars(ZoomOutTime) /\ WF_vars(ZoomOutPitch)
    /\ WF_vars(ZoomInTime) /\ WF_vars(ZoomInPitch)

TimeOps == {"zoomTime", "panZoomTime"}
PitchOps == {"zoomPitch", "panZoomPitch"}

\* the step is a zoom of the range from before to after in the direction of
\* its factor: it does not shrink on a zoom-out, does not grow on a zoom-in,
\* and stays within the limits
Monotone(factor, before, after, min, max) ==
    /\ min <= after /\ after <= max
    /\ factor[1] > factor[2] => after >= before
    /\ factor[1] < factor[2] => after <= before

AtMaximum == endBeat - startBeat = MaxBeatTicks /\ highNote - lowNote = MaxNoteTicks
AtMinimum == endBeat - startBeat = MinBeatTicks /\ highNote - lowNote = MinNoteTicks

\* C24: a repeated zoom-out never shrinks the visible range and brings it to
\* exactly the maximum, where it stays; a repeated zoom-in never grows it and
\* brings it to exactly the minimum, where it stays
C24_ZoomConverges ==
    /\ [][/\ last'.op \in TimeOps =>
                Monotone(last'.factor, endBeat - startBeat, endBeat' - startBeat',
                         MinBeatTicks, MaxBeatTicks)
          /\ last'.op \in PitchOps =>
                Monotone(last'.factor, highNote - lowNote, highNote' - lowNote',
                         MinNoteTicks, MaxNoteTicks)]_vars
    /\ [](last.op # "init" /\ ZoomingOut => <>[]AtMaximum)
    /\ [](last.op # "init" /\ ZoomingIn => <>[]AtMinimum)

\* a zoom-out applied at the maximum
C24_Witness ==
    /\ AtMaximum
    /\ last.op \in TimeOps
    /\ last.factor = <<2, 1>>


\* ------------------------------------------------------ the timeline ruler

LOOP_HANDLE_WIDTH == 6
\* the ruler is as wide as the grid
rulerWidth == gridWidth
\* the 0.25 beats of the handles' clamps and of Math.round(beat * 4) / 4
loopGrid == TicksPerBeat \div 4

\* loopEnd ?? clipLength
effectiveLoopEnd == IF loopEnd # None THEN loopEnd[1] ELSE clipLength

\* the ruler's own pixelToBeat: Math.round(beat * 4) / 4 of
\* startBeat + (x / width) * visibleBeats
rulerPixelToBeat(x) ==
    snap(startBeat * rulerWidth + x * beatsVisible, rulerWidth, loopGrid)

\* loopStartX and loopEndX as numerators over visibleBeats
loopStartXNum == (loopStart - startBeat) * rulerWidth
loopEndXNum == (effectiveLoopEnd - startBeat) * rulerWidth
loopVisible == loopEndXNum > 0 /\ loopStartXNum < rulerWidth * beatsVisible
\* the callback taken to be there without a look
callbackAssumed == TRUE
\* !!onLoopStartChange, and the !onLoopStartChange of the handlers' guards
canEditLoopStart == rulerProps.onLoopStartChange
canEditLoopEnd == rulerProps.onLoopEndChange \/ rulerProps.onClipLengthChange

\* pixel x lies in the box that starts at left (a numerator over
\* 2 * visibleBeats) and is w pixels wide (the same)
InBox(x, left, w) ==
    /\ 0 <= x /\ x <= rulerWidth
    /\ left <= 2 * x * beatsVisible
    /\ 2 * x * beatsVisible < left + w

\* the three boxes of the loop region, as they are rendered
startHandleAt(x) ==
    /\ loopVisible /\ canEditLoopStart
    /\ 0 <= loopStartXNum /\ loopStartXNum <= rulerWidth * beatsVisible
    /\ InBox(x, 2 * loopStartXNum - LOOP_HANDLE_WIDTH * beatsVisible,
             2 * LOOP_HANDLE_WIDTH * beatsVisible)

endHandleAt(x) ==
    /\ loopVisible /\ canEditLoopEnd
    /\ 0 < loopEndXNum /\ loopEndXNum <= rulerWidth * beatsVisible
    /\ InBox(x, 2 * loopEndXNum - LOOP_HANDLE_WIDTH * beatsVisible,
             2 * LOOP_HANDLE_WIDTH * beatsVisible)

loopBarAt(x) ==
    /\ loopVisible /\ canEditLoopStart /\ canEditLoopEnd
    /\ InBox(x, 2 * loopStartXNum + LOOP_HANDLE_WIDTH * beatsVisible,
             2 * Max(0, loopEndXNum - loopStartXNum - LOOP_HANDLE_WIDTH * beatsVisible))

\* the topmost box under the pointer: the bar is rendered last
rulerTarget(x) ==
    IF loopBarAt(x) THEN "bar"
    ELSE IF endHandleAt(x) THEN "end"
    ELSE IF startHandleAt(x) THEN "start"
    ELSE "none"

\* the guards of the three mousedown handlers
handleGuard(handle) ==
    CASE handle = "start" -> canEditLoopStart
      [] handle = "end" -> TRUE
      [] handle = "bar" -> canEditLoopStart /\ rulerProps.onLoopEndChange
      [] OTHER -> FALSE

\* loop ends the bounded runs go up to, in beats
MaxLoopBeats == 24

\* handleLoopStartMouseDown, handleLoopEndMouseDown, handleLoopBarMouseDown
rulerMouseDown(x) ==
    LET handle == rulerTarget(x)
    IN  /\ draggingHandle.handle = "none"
        /\ draggingHandle' =
              IF handleGuard(handle)
              THEN [handle |-> handle, startMouseX |-> x,
                    loopStart |-> loopStart, loopEnd |-> effectiveLoopEnd]
              ELSE NoHandle
        /\ rulerEvent' = RulerEvent("down", None, None, FALSE)
        /\ UNCHANGED <<loopStart, loopEnd, rulerProps, clipLength>>

\* the start handle's listener: Math.max(0, Math.min(effectiveLoopEnd - 0.25, beat))
loopStartMove(x) ==
    LET clampedBeat == Max(0, Min(draggingHandle.loopEnd - loopGrid, rulerPixelToBeat(x)))
    IN  /\ loopStart' = IF rulerProps.onLoopStartChange THEN clampedBeat ELSE loopStart
        /\ rulerEvent' = IF rulerProps.onLoopStartChange
                         THEN RulerEvent("move", Some(clampedBeat), None, FALSE)
                         ELSE RulerEvent("move", None, None, TRUE)
        /\ UNCHANGED <<loopEnd, clipLength>>

\* the end handle's listener: Math.max(loopStart + 0.25, beat), handed to
\* onLoopEndChange, or else to onClipLengthChange
loopEndMove(x) ==
    LET clampedBeat == Max(draggingHandle.loopStart + loopGrid, rulerPixelToBeat(x))
    IN  /\ clampedBeat <= MaxLoopBeats * TicksPerBeat
        /\ loopEnd' = IF rulerProps.onLoopEndChange THEN Some(clampedBeat) ELSE loopEnd
        /\ clipLength' = IF ~rulerProps.onLoopEndChange /\ rulerProps.onClipLengthChange
                         THEN clampedBeat ELSE clipLength
        /\ rulerEvent' = IF canEditLoopEnd
                         THEN RulerEvent("move", None, Some(clampedBeat), FALSE)
                         ELSE RulerEvent("move", None, None, FALSE)
        /\ UNCHANGED loopStart

\* the bar's listener: both bounds moved by the pointer's travel, held at
\* beat 0, each rounded to the loop grid
loopBarMove(x) ==
    LET loopLength == draggingHandle.loopEnd - draggingHandle.loopStart
        deltaX == x - draggingHandle.startMouseX
        \* initialLoopStart + deltaBeat, as a numerator over rulerWidth
        moved == draggingHandle.loopStart * rulerWidth + deltaX * beatsVisible
        newStart == IF moved < 0 THEN 0 ELSE moved
        newEnd == newStart + loopLength * rulerWidth
        both == rulerProps.onLoopStartChange /\ rulerProps.onLoopEndChange
    IN  /\ snap(newEnd, rulerWidth, loopGrid) <= MaxLoopBeats * TicksPerBeat
        /\ loopStart' = IF both THEN snap(newStart, rulerWidth, loopGrid) ELSE loopStart
        /\ loopEnd' = IF both THEN Some(snap(newEnd, rulerWidth, loopGrid)) ELSE loopEnd
        /\ rulerEvent' = IF both
                         THEN RulerEvent("move", Some(snap(newStart, rulerWidth, loopGrid)),
                                         Some(snap(newEnd, rulerWidth, loopGrid)), FALSE)
                         ELSE RulerEvent("move", None, None, TRUE)
        /\ UNCHANGED clipLength

\* a mousemove on the document: the listener of the drag in progress, if any
rulerMouseMove(x) ==
    /\ CASE draggingHandle.handle = "start" -> loopStartMove(x)
         [] draggingHandle.handle = "end" -> loopEndMove(x)
         [] draggingHandle.handle = "bar" -> loopBarMove(x)
         [] OTHER -> /\ rulerEvent' = RulerEvent("move", None, None, FALSE)
                     /\ UNCHANGED <<loopStart, loopEnd, clipLength>>
    /\ UNCHANGED <<rulerProps, draggingHandle>>

\* a mouseup on the document: cleanup
rulerMouseUp ==
    /\ rulerEvent.kind \in {"down", "move"}
    /\ draggingHandle' = NoHandle
    /\ rulerEvent' = RulerEvent("up", None, None, FALSE)
    /\ UNCHANGED <<loopStart, loopEnd, rulerProps, clipLength>>

\* the loop bounds and the viewports the host may hand to the ruler, and the
\* pixels the pointer visits
LoopBounds == {<<0, 4 * TicksPerBeat>>, <<0, 1>>, <<TicksPerBeat, TicksPerBeat + 3>>,
               <<4, 12>>}
RulerBeats == {1, 8}
RulerXs == {-40, 0, 5, 10, 40, 50, 80, 160, 240, 320, 400}

InitRuler ==
    /\ startBeat = 0
    /\ \E b \in RulerBeats : endBeat = b * TicksPerBeat
    /\ lowNote = initialLowNote * TicksPerNote
    /\ highNote = initialHighNote * TicksPerNote
    /\ last = Call("init", Center, NoArg, NoArg, 0)
    /\ EditorOnly("d3", << >>, {})
    /\ PlayheadIdle
    /\ GridStepIdle
    /\ rulerProps \in [{"onLoopStartChange", "onLoopEndChange", "onClipLengthChange"}
                         -> BOOLEAN]
    /\ \E b \in LoopBounds :
          /\ loopStart = b[1]
          /\ IF rulerProps.onLoopEndChange
             THEN loopEnd = Some(b[2]) /\ clipLength = 4 * TicksPerBeat
             ELSE loopEnd = None /\ clipLength = b[2]
    /\ draggingHandle = NoHandle
    /\ rulerEvent = RulerEvent("none", None, None, FALSE)

NextRuler ==
    /\ \/ \E x \in RulerXs : rulerMouseDown(x)
       \/ \E x \in RulerXs : rulerMouseMove(x)
       \/ rulerMouseUp
    /\ UNCHANGED <<startBeat, endBeat, lowNote, highNote, last>>
    /\ UNCHANGED <<eVars, pVars, sVars>>

SpecRuler == InitRuler /\ [][NextRuler]_vars


\* ------------------------------------------------------ ruler claims

\* the last event handed a bound to the host
Emitted == rulerEvent.start # None \/ rulerEvent.end # None

\* C25: whatever the handles and the bar are dragged through, the bounds
\* handed to the host satisfy 0 <= loopStart and loopStart + 0.25 <= loopEnd;
\* the start handle's beat lies in [0, loopEnd - 0.25] and the end handle's
\* is at least loopStart + 0.25
C25_LoopBounds ==
    Emitted =>
        /\ 0 <= loopStart
        /\ loopStart + loopGrid <= effectiveLoopEnd
        /\ draggingHandle.handle = "start" =>
              /\ 0 <= rulerEvent.start[1]
              /\ rulerEvent.start[1] <= effectiveLoopEnd - loopGrid
        /\ draggingHandle.handle = "end" =>
              rulerEvent.end[1] >= loopStart + loopGrid

\* a bar drag has handed both bounds to the host
C25_Witness ==
    /\ draggingHandle.handle = "bar"
    /\ rulerEvent.start # None /\ rulerEvent.end # None
    /\ loopStart > draggingHandle.loopStart

\* C26: every pointer-move of a bar drag emits bounds as far apart as the
\* bounds were when the drag began
C26_BarKeepsLength ==
    (draggingHandle.handle = "bar" /\ Emitted) =>
        rulerEvent.end[1] - rulerEvent.start[1]
          = draggingHandle.loopEnd - draggingHandle.loopStart

\* a bar drag held at beat 0
C26_Witness ==
    /\ draggingHandle.handle = "bar"
    /\ Emitted
    /\ draggingHandle.loopStart > 0
    /\ rulerEvent.start = Some(0)

\* C27: without onLoopStartChange no pointer event emits a loop start, without
\* onLoopEndChange and onClipLengthChange none emits a loop end, and no
\* listener calls a callback that is not there
C27_MissingCallbacks ==
    /\ ~rulerProps.onLoopStartChange =>
          /\ rulerEvent.start = None
          /\ draggingHandle.handle \notin {"start", "bar"}
    /\ ~(rulerProps.onLoopEndChange \/ rulerProps.onClipLengthChange) =>
          rulerEvent.end = None
    /\ ~rulerEvent.error

\* the pointer pressed where the start handle would be and moved, the host
\* supplying no onLoopStartChange
C27_Witness ==
    /\ ~rulerProps.onLoopStartChange
    /\ rulerEvent.kind = "move"
    /\ draggingHandle.handle = "end"
    /\ rulerEvent.end # None


\* ------------------------------------------------------ the playhead

\* frame handles the bounded runs hand out
MaxFrames == 4
\* the beats the host writes to playheadBeatRef and the viewports it shows
SeekBeats == {0, 2 * TicksPerBeat, 12 * TicksPerBeat}
PlayheadViewports == {<<0, 8 * TicksPerBeat>>, <<4 * TicksPerBeat, 12 * TicksPerBeat>>}

\* updatePlayhead: the line is drawn at the beat of the cell, visible when the
\* beat is inside the viewport [from, to]
updatePlayhead(from, to) ==
    [beat |-> playheadBeat, visible |-> from <= playheadBeat /\ playheadBeat <= to]

\* the handle left pending
cancelNothing(handle) == pending

\* cancelAnimationFrame(handle)
cancelAnimationFrame(handle) == pending \ {handle}

\* the cleanup the effect returned when it ran with isPlaying: the frame in
\* rafRef is cancelled; the effect returns none when it ran stopped
Cleaned == IF isPlaying /\ rafRef # None THEN cancelAnimationFrame(rafRef[1]) ELSE pending

\* the animation effect runs with the given isPlaying and viewport, after the
\* cleanup of its last run
runEffect(playing, from, to) ==
    /\ marker' = updatePlayhead(from, to)
    /\ IF playing
       THEN /\ frames < MaxFrames
            /\ frames' = frames + 1
            /\ rafRef' = Some(frames + 1)
            /\ pending' = Cleaned \cup {frames + 1}
       ELSE /\ frames' = frames
            /\ rafRef' = IF isPlaying THEN None ELSE rafRef
            /\ pending' = Cleaned

\* the host starts playback
play ==
    /\ mounted /\ ~isPlaying
    /\ isPlaying' = TRUE
    /\ runEffect(TRUE, startBeat, endBeat)
    /\ UNCHANGED <<mounted, playheadBeat, startBeat, endBeat>>

\* the host stops playback
stop ==
    /\ mounted /\ isPlaying
    /\ isPlaying' = FALSE
    /\ runEffect(FALSE, startBeat, endBeat)
    /\ UNCHANGED <<mounted, playheadBeat, startBeat, endBeat>>

\* the viewport prop changes: the effect's dependencies differ
viewportChange(v) ==
    /\ mounted
    /\ <<startBeat, endBeat>> # v
    /\ startBeat' = v[1] /\ endBeat' = v[2]
    /\ runEffect(isPlaying, v[1], v[2])
    /\ UNCHANGED <<mounted, isPlaying, playheadBeat>>

\* the browser runs a pending frame callback: animate
animate ==
    /\ \E handle \in pending :
          /\ frames < MaxFrames
          /\ marker' = updatePlayhead(startBeat, endBeat)
          /\ frames' = frames + 1
          /\ rafRef' = Some(frames + 1)
          /\ pending' = (pending \ {handle}) \cup {frames + 1}
    /\ UNCHANGED <<mounted, isPlaying, playheadBeat, startBeat, endBeat>>

\* the host writes the position cell
seek(beat) ==
    /\ playheadBeat # beat
    /\ playheadBeat' = beat
    /\ UNCHANGED <<mounted, isPlaying, marker, rafRef, pending, frames, startBeat, endBeat>>

\* the component is torn down: the last cleanup runs
unmount ==
    /\ mounted
    /\ mounted' = FALSE
    /\ pending' = Cleaned
    /\ rafRef' = IF isPlaying THEN None ELSE rafRef
    /\ UNCHANGED <<isPlaying, playheadBeat, marker, frames, startBeat, endBeat>>

\* the hook after its first effects, stopped or playing
InitPlayhead ==
    /\ InitViewport
    /\ clipLength = 16 * TicksPerBeat
    /\ last = Call("init", Center, NoArg, NoArg, 0)
    /\ EditorOnly("d3", << >>, {})
    /\ RulerIdle
    /\ GridStepIdle
    /\ mounted = TRUE
    /\ isPlaying \in BOOLEAN
    /\ playheadBeat \in SeekBeats
    /\ marker = updatePlayhead(startBeat, endBeat)
    /\ rafRef = IF isPlaying THEN Some(1) ELSE None
    /\ pending = IF isPlaying THEN {1} ELSE {}
    /\ frames = IF isPlaying THEN 1 ELSE 0

\* what the playhead leaves alone
PlayheadRest ==
    /\ UNCHANGED <<lowNote, highNote, clipLength, last>>
    /\ UNCHANGED <<eVars, rVars, sVars>>

\* a frame of the browser
frame == animate /\ PlayheadRest

NextPlayhead ==
    \/ frame
    \/ /\ \/ play
          \/ stop
          \/ \E v \in PlayheadViewports : viewportChange(v)
          \/ \E beat \in SeekBeats : seek(beat)
          \/ unmount
       /\ PlayheadRest

\* the browser runs every frame callback it holds
SpecPlayhead == InitPlayhead /\ [][NextPlayhead]_vars /\ WF_vars(frame)


\* ------------------------------------------------------ playhead claims

Stopped == mounted /\ ~isPlaying

\* C28: while mounted and playing exactly one frame callback is pending; at
\* most one is pending at any time; after a stop or an unmount none is
\* pending, and no frame runs until playback starts again
C28_FrameLoop ==
    /\ [](/\ Cardinality(pending) <= 1
          /\ (mounted /\ isPlaying) => pending = {rafRef[1]}
          /\ ~(mounted /\ isPlaying) => pending = {})
    /\ [][(~(mounted /\ isPlaying) /\ isPlaying' = isPlaying) => frames' = frames]_vars

\* playback stopped after frames ran, and the component torn down
C28_Witness ==
    /\ ~mounted /\ ~isPlaying
    /\ frames >= 3
    /\ rafRef = None

\* C29: while stopped no frame callback is scheduled, and the marker comes to
\* show the beat the host last wrote to the position cell
C29_SeekReflected ==
    /\ [](Stopped => pending = {})
    /\ [](Stopped => <>(marker.beat = playheadBeat \/ ~Stopped))

\* the effect ran stopped after frames had run: the marker shows the cell
C29_Witness ==
    /\ Stopped
    /\ frames >= 2
    /\ playheadBeat # 0
    /\ marker.beat = playheadBeat
    /\ pending = {}


\* ------------------------------------------------------ the adaptive grid step

\* pixelsPerBeat runs over the half pixels up to this many pixels
MaxPixelsPerBeat == 125
PixelsPerBeat == {<<n, 2>> : n \in 0..(2 * MaxPixelsPerBeat)}

\* p >= pixels, p being a fraction
AtLeast(p, pixels) == p[1] >= pixels * p[2]

\* the thresholds tried from the lowest up
calculateGridStepLowestFirst(p) ==
    IF AtLeast(p, 15) THEN TicksPerBeat
    ELSE IF AtLeast(p, 30) THEN TicksPerBeat \div 2
    ELSE IF AtLeast(p, 60) THEN TicksPerBeat \div 4
    ELSE IF AtLeast(p, 120) THEN TicksPerBeat \div 8
    ELSE 4 * TicksPerBeat

\* calculateGridStep, the result in ticks
calculateGridStep(p) ==
    IF AtLeast(p, 120) THEN TicksPerBeat \div 8
    ELSE IF AtLeast(p, 60) THEN TicksPerBeat \div 4
    ELSE IF AtLeast(p, 30) THEN TicksPerBeat \div 2
    ELSE IF AtLeast(p, 15) THEN TicksPerBeat
    ELSE 4 * TicksPerBeat

\* generateBeatColumns takes the step of the scale it is drawn at
drawGrid ==
    /\ gridStep = None
    /\ gridStep' = Some(calculateGridStep(pixelsPerBeat))
    /\ UNCHANGED <<pixelsPerBeat, columns, row, keysDragAnchor>>

\* the grid is drawn again at another scale
rescale(p) ==
    /\ gridStep # None
    /\ p # pixelsPerBeat
    /\ pixelsPerBeat' = p
    /\ gridStep' = Some(calculateGridStep(p))
    /\ UNCHANGED <<columns, row, keysDragAnchor>>

InitGridStep ==
    /\ InitViewport
    /\ clipLength = 16 * TicksPerBeat
    /\ last = Call("init", Center, NoArg, NoArg, 0)
    /\ EditorOnly("d3", << >>, {})
    /\ RulerIdle
    /\ PlayheadIdle
    /\ pixelsPerBeat \in PixelsPerBeat
    /\ gridStep = None
    /\ columns = None
    /\ row = None
    /\ keysDragAnchor = None

NextGridStep ==
    /\ \/ drawGrid
       \/ \E p \in PixelsPerBeat : rescale(p)
    /\ UNCHANGED <<startBeat, endBeat, lowNote, highNote, clipLength, last>>
    /\ UNCHANGED <<eVars, rVars, pVars>>

SpecGridStep == InitGridStep /\ [][NextGridStep]_vars

\* the thresholds of the claim, in pixels per beat, with their steps in
\* eighths of a beat
StepTable == {<<120, 1>>, <<60, 2>>, <<30, 4>>, <<15, 8>>}

\* C30: the step is that of the highest threshold pixelsPerBeat reaches
\* (0.125 from 120, 0.25 from 60, 0.5 from 30, 1 from 15) and 4 beats below
\* them all, and a larger pixelsPerBeat never gives a larger step
C30_GridStep ==
    /\ [](gridStep # None =>
            LET met == {t \in StepTable : pixelsPerBeat[1] >= t[1] * pixelsPerBeat[2]}
            IN  IF met = {} THEN gridStep[1] * 8 = 32 * TicksPerBeat
                ELSE \E t \in met :
                        /\ \A u \in met : u[1] <= t[1]
                        /\ gridStep[1] * 8 = t[2] * TicksPerBeat)
    /\ [][(gridStep # None /\ gridStep' # None
            /\ pixelsPerBeat'[1] * pixelsPerBeat[2] >= pixelsPerBeat[1] * pixelsPerBeat'[2])
           => gridStep'[1] <= gridStep[1]]_vars

\* the grid drawn at exactly 30 pixels per beat
C30_Witness ==
    /\ pixelsPerBeat = <<60, 2>>
    /\ gridStep = Some(TicksPerBeat \div 2)


\* ------------------------------------------------------ the beat columns

\* the for loop of generateBeatColumns: beat runs from firstBeat in steps of
\* gridStep while beat <= endBeat, and is kept when beat >= startBeat
RECURSIVE beatLoop(_, _, _, _)
beatLoop(beat, from, to, step) ==
    IF beat <= to
    THEN (IF beat >= from THEN <<beat>> ELSE << >>) \o beatLoop(beat + step, from, to, step)
    ELSE << >>

\* gridWidth / beatsVisible, as a fraction
PixelsPerBeatOf(from, to, width) == <<width * TicksPerBeat, to - from>>

\* generateBeatColumns(startBeat, endBeat, gridWidth): the beats of the columns
generateBeatColumns(from, to, width) ==
    LET step == calculateGridStep(PixelsPerBeatOf(from, to, width))
        firstBeat == Floor(from, step) * step
    IN  beatLoop(firstBeat, from, to, step)

\* the grid is drawn over the viewport [from, to]
drawColumns(from, to) ==
    /\ startBeat' = from
    /\ endBeat' = to
    /\ pixelsPerBeat' = PixelsPerBeatOf(from, to, gridWidth)
    /\ gridStep' = Some(calculateGridStep(PixelsPerBeatOf(from, to, gridWidth)))
    /\ columns' = Some(generateBeatColumns(from, to, gridWidth))
    /\ UNCHANGED <<row, keysDragAnchor>>
    /\ UNCHANGED <<lowNote, highNote, clipLength, last>>
    /\ UNCHANGED <<eVars, rVars, pVars>>

\* the viewports drawn: starts up to this many ticks, and these ranges in ticks
MaxColumnStart == 17
ColumnRanges == {8, 20, 32, 61, 64, 128, 256}

InitColumns ==
    /\ InitViewport
    /\ clipLength = 16 * TicksPerBeat
    /\ last = Call("init", Center, NoArg, NoArg, 0)
    /\ EditorOnly("d3", << >>, {})
    /\ RulerIdle
    /\ PlayheadIdle
    /\ pixelsPerBeat = PixelsPerBeatOf(startBeat, endBeat, gridWidth)
    /\ gridStep = None
    /\ columns = None
    /\ row = None
    /\ keysDragAnchor = None

NextColumns ==
    \E from \in 0..MaxColumnStart, range \in ColumnRanges :
        /\ <<from, from + range>> # <<startBeat, endBeat>> \/ columns = None
        /\ drawColumns(from, from + range)

SpecColumns == InitColumns /\ [][NextColumns]_vars

\* C31: the columns are the multiples of the grid step from the first one at
\* or after startBeat, in order, up to the one line past endBeat
C31_BeatColumns ==
    columns # None =>
        LET cols == columns[1]
            step == gridStep[1]
        IN  /\ Len(cols) > 0
            /\ cols[1] % step = 0
            /\ startBeat <= cols[1] /\ cols[1] - step < startBeat
            /\ \A i \in 1..(Len(cols) - 1) : cols[i + 1] = cols[i] + step
            /\ cols[Len(cols)] > endBeat
            /\ cols[Len(cols)] - step <= endBeat

\* columns drawn over a viewport that neither starts nor ends on a grid line
C31_Witness ==
    /\ columns # None
    /\ startBeat % gridStep[1] # 0
    /\ endBeat % gridStep[1] # 0
    /\ Len(columns[1]) > 2

\* ------------------------------------------------------- the rows of the grid

\* yToPitch at the pixel n / d: clamp(Math.floor(yScale.invert(y)), 0, 127)
yToPitchAt(n, d) ==
    clamp(Floor((highNote + TicksPerNote) * gridHeight * d - n * noteRange,
                gridHeight * TicksPerNote * d), 0, MidiMax) * TicksPerNote

\* the rows looked at, and the quarters of a row's height below its top edge
RowPitches == {0, 36, 60, 84, 127}
RowQuarters == 0..3

\* pitchToY(pitch) + (quarter / 4) * noteHeight as a fraction of pixels
rowY(pitch, quarter) ==
    <<4 * YNum(pitch) + quarter * NoteHeightNum, 4 * noteRange>>

\* a handler asks the scales for the pitch at a y of the row of a visible
\* integer pitch
pitchAt(p, quarter) ==
    LET pitch == p * TicksPerNote
        y == rowY(pitch, quarter)
    IN  /\ lowNote <= pitch /\ pitch <= highNote
        /\ row' = Some([pitch |-> pitch, quarter |-> quarter, y |-> y,
                         yToPitch |-> yToPitchAt(y[1], y[2])])
        /\ row' # row
        /\ UNCHANGED <<startBeat, endBeat, lowNote, highNote, clipLength, last>>
        /\ UNCHANGED <<eVars, rVars, pVars>>
        /\ UNCHANGED <<pixelsPerBeat, gridStep, columns, keysDragAnchor>>

\* the viewport is set, then the scales are asked
NextRows ==
    \/ row = None /\ NextPitch
    \/ \E p \in RowPitches, quarter \in RowQuarters : pitchAt(p, quarter)

SpecRows == Init /\ [][NextRows]_vars

\* C32: the row of a visible integer pitch p is [pitchToY(p), pitchToY(p) +
\* noteHeight), pitchToY(highNote) is 0, and yToPitch maps every y of the row,
\* its top edge included, back to p
C32_RowRoundTrip ==
    [][row' # row =>
          /\ row'[1].yToPitch = row'[1].pitch
          /\ YNum(highNote) = 0]_vars

\* yToPitch was asked at the top edge of a row below the top of the MIDI range
C32_Witness ==
    /\ row # None
    /\ row[1].quarter = 0
    /\ row[1].pitch < MidiMaxTicks

\* --------------------------------------------------- the snapshot of a move

\* the ids of the snapshot of original positions
movedIds(drag) ==
    IF drag.originalSelectedNotes = None THEN {} ELSE DOMAIN drag.originalSelectedNotes

\* this step is a pointer-down that starts a move gesture
MoveStarts == ptr'.kind = "down" /\ pressed' /\ ~pressed /\ dragState'.type = "move"

\* C33: the snapshot a move gesture starts with holds exactly the notes of
\* the selection the pointer-down leaves, each at its start beat and pitch
C33_MoveSnapshot ==
    [][MoveStarts =>
          /\ movedIds(dragState') = selection'
          /\ \A i \in 1..Len(notes) :
                notes[i].id \in selection' =>
                    dragState'.originalSelectedNotes[notes[i].id] =
                        [startBeat |-> notes[i].startBeat, pitch |-> notes[i].pitch]]_vars

\* a shift-press on the body of a selected note has started a move and taken
\* the note out of a selection that keeps other notes
C33_Witness ==
    /\ ptr.kind = "down"
    /\ ptr.shiftKey
    /\ dragState.type = "move"
    /\ dragState.noteId \notin selection
    /\ selection # {}

\* ------------------------------------------------------ one gesture at a time

DragTypes == {"none", "brush", "move", "resize-start", "resize-end"}

\* the pointer leaves the grid of PianoRoll: its onMouseLeave is the handler of
\* this step, no pointer-move handler runs
LeavesGrid ==
    impl = "inline" /\ InGrid(ptr.x, ptr.y) /\ ~InGrid(ptr'.x, ptr'.y)

\* the drag state and the brush's document listeners after this step are the
\* ones of the pointer-down at (x, y)
StartedAt(x, y) ==
    /\ dragState'.type # "none" =>
            <<dragState'.startX, dragState'.startY>> = <<x, y>>
    /\ brushListener' # None =>
            /\ <<brushListener'[1].x, brushListener'[1].y>> = <<x, y>>
            /\ dragState'.type \in {"none", "brush"}

\* no other step sets up a drag state or a listener
NothingStarted ==
    /\ dragState' \in {dragState, INITIAL_DRAG_STATE}
    /\ brushListener' \in {brushListener, None}

frameDeltaBeat(x) ==
    IF impl = "d3"
    THEN snap(pixelToBeat(x) - pixelToBeat(dragState.startX), 1, snapToBeat)
    ELSE pixelToBeat(x) - dragState.startBeat
frameDeltaPitch(y) ==
    IF impl = "d3" THEN yToPitch(y) - yToPitch(dragState.startY)
    ELSE pixelToPitch(y) - dragState.startPitch

\* the note a frame at (x, y) makes of the note n as the gesture found it
SnapshotFrame(n, x, y) ==
    LET moved == dragState.originalSelectedNotes
        resized == dragState.originalSelectedNotesForResize
        pressedNote == impl = "inline" /\ n.id = dragState.noteId
                         /\ dragState.originalNote # None
        deltaBeat == frameDeltaBeat(x)
    IN  CASE dragState.type = "move" /\ n.id \in DOMAIN moved ->
                MoveNote(n, moved[n.id], deltaBeat, frameDeltaPitch(y))
          [] dragState.type = "resize-start" /\ pressedNote ->
                ResizeStartNote(n, dragState.originalNote[1], deltaBeat, TRUE)
          [] dragState.type = "resize-end" /\ pressedNote ->
                ResizeEndNote(n, dragState.originalNote[1], deltaBeat)
          [] dragState.type = "resize-start" /\ impl # "inline" /\ n.id \in DOMAIN resized ->
                ResizeStartNote(n, resized[n.id], deltaBeat, FALSE)
          [] dragState.type = "resize-end" /\ impl # "inline" /\ n.id \in DOMAIN resized ->
                ResizeEndNote(n, resized[n.id], deltaBeat)
          [] OTHER -> n

\* this step is a frame of a move or a resize over the notes the gesture
\* started with
IsFrame ==
    /\ ptr'.kind = "move"
    /\ dragState.type \in {"move", "resize-start", "resize-end"}
    /\ dragState' = dragState
    /\ IF impl = "d3" THEN pressed ELSE InGrid(ptr'.x, ptr'.y)
    /\ Len(notes) = Len(notes0)
    /\ \A i \in 1..Len(notes) : notes[i].id = notes0[i].id

\* C35: a frame of a move or a resize computes every note from the snapshot
\* of the gesture's start and the pointer's position alone, so the notes it
\* leaves are the ones a first frame at that position leaves, whatever the
\* frames before it did and whether or not it is rejected for a note.
C35_FramesFromSnapshot ==
    [][IsFrame =>
          \A i \in 1..Len(notes) :
              notes'[i] = SnapshotFrame(notes0[i], ptr'.x, ptr'.y)]_vars

\* a frame of a resize-start is rejected for a note that an earlier frame of
\* the gesture has resized
C35_Witness ==
    /\ ptr.kind = "move"
    /\ dragState.type = "resize-start"
    /\ Len(notes) = Len(notes0)
    /\ \E i \in 1..Len(notes) :
          /\ notes[i].id = dragState.noteId
          /\ notes[i] # notes0[i]
          /\ SnapshotFrame(notes0[i], ptr.x, ptr.y) = notes0[i]

\* ------------------------------------- the drag on the piano keys and the strip

\* where the cursor is on the column, as a ratio of its height, and the zoom
\* factors 1 - deltaX * 0.01 of a frame
KeyRatios == {<<0, 1>>, <<1, 2>>, <<1, 1>>}
KeyFactors == {<<1, 1>>, <<1, 2>>, <<2, 1>>}

\* handleKeysMouseDown, and the 'start' handler of the strip: the pitch under
\* the cursor is viewport.highNote - ratio * noteRange
keysMouseDown(ratio) ==
    LET anchorPitch == highNote - (ratio[1] * noteRange) \div ratio[2]
    IN  /\ keysDragAnchor = None
        /\ Representable(ratio[1] * noteRange, ratio[2])
        /\ keysDragAnchor' = Some(anchorPitch)
        /\ last' = Call("keysMouseDown", <<anchorPitch>>, ratio, NoArg, 0)
        /\ UNCHANGED <<startBeat, endBeat, lowNote, highNote, clipLength>>
        /\ UNCHANGED <<eVars, rVars, pVars>>
        /\ UNCHANGED <<pixelsPerBeat, gridStep, columns, row>>

\* handleMouseMove of the document, and the 'drag' handler of the strip
keysMouseMove(ratio, zoomDelta) ==
    /\ keysDragAnchor # None
    /\ panZoomPitch(keysDragAnchor[1], ratio, zoomDelta)

\* cleanup, on the document's mouseup
keysMouseUp ==
    /\ keysDragAnchor # None
    /\ keysDragAnchor' = None
    /\ UNCHANGED <<startBeat, endBeat, lowNote, highNote, clipLength, last>>
    /\ UNCHANGED <<eVars, rVars, pVars>>
    /\ UNCHANGED <<pixelsPerBeat, gridStep, columns, row>>

NextKeys ==
    \/ \E ratio \in KeyRatios : keysMouseDown(ratio)
    \/ \E ratio \in KeyRatios, zoomDelta \in KeyFactors : keysMouseMove(ratio, zoomDelta)
    \/ keysMouseUp

SpecKeys == Init /\ [][NextKeys]_vars

\* this step is a frame of the drag
KeysFrame ==
    /\ keysDragAnchor # None
    /\ keysDragAnchor' = keysDragAnchor
    /\ last'.op = "panZoomPitch"

\* the pitch under the cursor at the ratio n / d is the anchor: highNote -
\* (n / d) * noteRange
UnderCursor(ratio, anchorPitch) ==
    anchorPitch * ratio[2] = highNote * ratio[2] - ratio[1] * noteRange

\* one of the two clamps to the MIDI range set the viewport
MidiClamped == lowNote = 0 \/ highNote = MidiMaxTicks

\* C36: during a drag on the pitch strip or the piano keys the pitch that was
\* under the cursor at the press stays under it. A frame with zoom factor 1
\* at the ratio the cursor already had leaves the viewport as it is, and
\* after every frame the anchor is highNote - ratio * noteRange at the
\* cursor's ratio, unless the viewport was clamped to the MIDI range.
C36_AnchorStays ==
    [][KeysFrame =>
          /\ (last'.factor = <<1, 1>> /\ last'.ratio = last.ratio) =>
                  <<lowNote', highNote'>> = <<lowNote, highNote>>
          /\ MidiClamped' \/ UnderCursor(last.ratio, keysDragAnchor[1])']_vars

\* the first frame of a drag has zoom factor 1 and the ratio of the press, in
\* the middle of the column, and no clamp engaged
C36_Witness ==
    /\ keysDragAnchor # None
    /\ last.op = "panZoomPitch"
    /\ last.factor = <<1, 1>>
    /\ last.ratio = <<1, 2>>
    /\ ~MidiClamped

\* ----------------------------------------------------- the editor torn down

\* the editor is unmounted: React drops its state. usePianoRollDrag and
\* PianoRoll have no effect cleanup, and nothing calls cleanupRef.current, so
\* the document keeps the brush's listeners; the cleanup of useD3Brush's
\* effect removes the brush group with its listeners
teardown ==
    /\ mounted
    /\ mounted' = FALSE
    /\ dragState' = INITIAL_DRAG_STATE
    /\ brushRect' = None
    /\ brushPreviewIds' = {}
    /\ brushListener' = IF impl = "d3" THEN None ELSE brushListener
    /\ ptr' = [ptr EXCEPT !.kind = "teardown"]
    /\ clipEmitted' = FALSE
    /\ UNCHANGED <<impl, notes, selection, pressed, nextId, gestures, clamped,
                   notes0, selection0, shift0>>
    /\ UNCHANGED <<startBeat, endBeat, lowNote, highNote, clipLength, last>>
    /\ UNCHANGED <<isPlaying, playheadBeat, marker, rafRef, pending, frames>>
    /\ UNCHANGED <<rVars, sVars>>

\* the button goes up after the teardown: handleBrushUp finds gridRef.current
\* null, commits nothing and removes its listeners
documentMouseUp ==
    /\ ~mounted
    /\ pressed
    /\ pressed' = FALSE
    /\ brushListener' = None
    /\ ptr' = [ptr EXCEPT !.kind = "up"]
    /\ UNCHANGED <<impl, notes, selection, dragState, brushRect, brushPreviewIds,
                   nextId, gestures, clamped, notes0, selection0, shift0, clipEmitted>>
    /\ UNCHANGED <<startBeat, endBeat, lowNote, highNote, clipLength, last>>
    /\ UNCHANGED xVars

NextTeardown ==
    \/ mounted /\ NextGesture
    \/ teardown
    \/ documentMouseUp

SpecTeardown == InitGesture /\ [][NextTeardown]_vars

\* this step puts the brush's listeners on the document, or takes them off
Registers == brushListener' # None /\ brushListener' # brushListener
Removes == brushListener # None /\ brushListener' = None

\* C37: the brush's document listeners are registered once, by the
\* pointer-down that starts it and when none is registered, and removed by the
\* pointer-up that ends it or by the teardown of the component; none is
\* registered while the drag state of usePianoRollDrag is none.
C37_BrushListeners ==
    [][/\ Registers => (brushListener = None /\ ptr'.kind = "down")
       /\ Removes => ptr'.kind \in {"up", "teardown"}
       /\ (mounted /\ ~mounted') => brushListener' = None
       /\ (impl # "d3" /\ dragState'.type = "none") => brushListener' = None]_vars

\* the component is torn down in the middle of a brush of usePianoRollDrag
C37_Witness ==
    /\ ~mounted
    /\ impl = "hook"
    /\ ptr.kind = "teardown"
    /\ pressed
    /\ brushListener # None

\* ------------------------------------------------- what a frame may change

\* the ids of the snapshot of the gesture: the original positions of a move,
\* the original extents of a resize, and the pressed note of PianoRoll's resize
snapshotIds ==
    IF dragState.type = "move" THEN movedIds(dragState)
    ELSE IF impl = "inline"
    THEN (IF dragState.originalNote = None THEN {} ELSE {dragState.noteId})
    ELSE IF dragState.originalSelectedNotesForResize = None THEN {}
    ELSE DOMAIN dragState.originalSelectedNotesForResize

\* the note after the frame, with the fields the gesture may change put back
Restored(after, before) ==
    CASE dragState.type = "move" ->
            [after EXCEPT !.startBeat = before.startBeat, !.pitch = before.pitch]
      [] dragState.type = "resize-start" ->
            [after EXCEPT !.startBeat = before.startBeat, !.duration = before.duration]
      [] OTHER -> [after EXCEPT !.duration = before.duration]

\* C38: a frame of a move or a resize leaves a clip of the same length, with
\* the ids of the current clip in their order; a note outside the snapshot is
\* as it was, and a note of the snapshot differs at most in start beat and
\* pitch (move), start beat and duration (resize-start) or duration
\* (resize-end). So a note deleted during the gesture is not added again.
C38_FrameEffect ==
    [][(ptr'.kind = "move" /\ dragState.type \in {"move", "resize-start", "resize-end"}) =>
          /\ Len(notes') = Len(notes)
          /\ \A i \in 1..Len(notes) :
                /\ notes'[i].id = notes[i].id
                /\ notes[i].id \notin snapshotIds => notes'[i] = notes[i]
                /\ Restored(notes'[i], notes[i]) = notes[i]]_vars

\* a frame of a move has been handled after Delete took the moved notes out of
\* the clip, and the clip is still without them
C38_Witness ==
    /\ ptr.kind = "move"
    /\ dragState.type = "move"
    /\ movedIds(dragState) # {}
    /\ movedIds(dragState) \cap IdsOf(notes) = {}
    /\ Len(notes) < Len(notes0)

\* ------------------------------------------------- the selection and the clip

\* C39: the selection starts inside the clip, and after any pointer-downs,
\* moves, ups, double-clicks and Delete or Backspace presses, in a gesture or
\* between gestures, every selected id is the id of a note of the clip.
C39_SelectionInClip == selection \subseteq IdsOf(notes)

\* a gesture has ended with notes selected in a clip that a key press has
\* taken notes out of
C39_Witness ==
    /\ ptr.kind = "up"
    /\ gestures = 2
    /\ selection # {}
    /\ Len(notes) < Len(HostNotes)

\* --------------------------------------------- the brush's preview and commit

\* this step is the release that ends a brush started and ended without shift
BrushReleased ==
    /\ pressed /\ ~pressed'
    /\ mounted
    /\ ~ptr'.shiftKey /\ ~shift0
    /\ IF impl = "d3" THEN brushListener # None
       ELSE dragState.type = "brush" /\ brushListener # None

\* the preview shown: brushPreviewIds of useD3Brush, and the useMemo of
\* usePianoRollDrag over the current clip, scales and rectangle
BrushPreview ==
    IF impl = "d3" THEN brushPreviewIds
    ELSE IF dragState.type = "brush" /\ brushRect # None
    THEN NotesInRect(notes, brushRect[1])
    ELSE {}

\* C40: the release of a brush without shift leaves selected exactly the
\* notes of the preview shown for the final rectangle at that moment, also
\* when the viewport was panned during the brush.
C40_CommitIsPreview == [][BrushReleased => selection' = BrushPreview]_vars

\* a brush of usePianoRollDrag is in progress on a viewport panned since its
\* press, and the preview shown is not what the listener's scales give
C40_Witness ==
    /\ impl = "hook"
    /\ pressed
    /\ dragState.type = "brush"
    /\ brushListener # None
    /\ brushListener[1].scales # Scales
    /\ NotesInRectAt(brushListener[1].scales, brushListener[1].notes, brushRect[1])
          # BrushPreview
====
